---- MODULE Spec2Model ----
(***************************************************************************)
(* HeroACP: the bidirectional JSON-RPC engine of the Agent Client Protocol. *)
(* One connection is modelled, seen from one of its two ends:              *)
(*   role = "server"  Server::run         (src/src/server/mod.rs)          *)
(*   role = "client"  Client's two tasks  (src/src/client/mod.rs)          *)
(* The peer at the other end is the environment: it writes arbitrary lines *)
(* on the inbound stream and may close it.                                 *)
(***************************************************************************)
EXTENDS Integers, Sequences, FiniteSets, TLC

(* ------------------------------ bounds --------------------------------- *)
\* events the environment feeds the engine during one behaviour: results of
\* next_line() (a line, the end of the stream), send_request calls of the
\* application, updates the agent pushes into the sink, a failed write, an
\* elapsed send_request timeout
MaxInputs == 3
\* updates the session/prompt handlers push during one behaviour; the Done
\* that ends a handler is always pushed, it is counted but never held back
MaxUpdates == 2

(* -------------------------- program constants -------------------------- *)
\* mpsc::channel::<String>(100), mpsc::channel::<SessionUpdate>(100)
CHANNEL_CAPACITY == 100
PARSE_ERROR == -32700
INVALID_REQUEST == -32600
METHOD_NOT_FOUND == -32601
INVALID_PARAMS == -32602
INTERNAL_ERROR == -32603
RESOURCE_NOT_FOUND == -32001
PERMISSION_DENIED == -32002
INVALID_STATE == -32003
CAPABILITY_NOT_SUPPORTED == -32004

(* ------------------------------ JSON ----------------------------------- *)
\* A JSON value in the place of a frame's `id`: a number n, the string whose
\* text is the numeral of n, null, or no `id` key at all.
Num(n) == [kind |-> "num", n |-> n]
Str(n) == [kind |-> "str", n |-> n]
Null == [kind |-> "null", n |-> 0]
Absent == [kind |-> "absent", n |-> 0]

Numerals == <<"1", "2", "3", "4", "5", "6", "7", "8", "9">>
QuotedNumerals == <<"\"1\"", "\"2\"", "\"3\"", "\"4\"", "\"5\"", "\"6\"", "\"7\"", "\"8\"", "\"9\"">>

\* serde_json's Value::to_string: the JSON text of the value.
to_string(v) ==
    CASE v.kind = "num" -> Numerals[v.n]
      [] v.kind = "str" -> QuotedNumerals[v.n]
      [] OTHER -> "null"

\* msg.get("id").is_some(): the key is present (a null id is present).
has_id(msg) == msg.id.kind # "absent"

\* The `method` key of a frame: a method name, a value that is not a string,
\* or no key.
NoMethod == "<absent>"
NonStringMethod == "<nonstring>"

\* msg.get("method").is_some()
has_method(msg) == msg.method # NoMethod

\* msg.get("method").and_then(|m| m.as_str()) is Some
method_is_str(msg) == msg.method \notin {NoMethod, NonStringMethod}

\* msg["method"].as_str().unwrap_or("")
method_or_empty(msg) == IF method_is_str(msg) THEN msg.method ELSE ""

\* Option::None of a struct field, and the matching missing key of a JSON object
None == "None"
NoKey == "<absent>"

\* `params`: the fields that are present with a value of the expected JSON
\* type, and the values the handlers read.  A missing, null or ill-typed
\* `params` has no usable field.
\* `data` stands for the payload of a session/update: the text the handler
\* produced, named by the handler invocation and the position of the push.
NoData == [inv |-> 0, k |-> 0]
Params(fields, sid, tid, abs) ==
    [fields |-> fields, sid |-> sid, tid |-> tid, abs |-> abs, type |-> "", data |-> NoData]
NoParams == Params({}, "", 0, FALSE)

\* error{code, message}; NoError: no `error` key; BadError: an `error` value
\* that does not deserialize into JsonRpcError.
JsonRpcError(code, message) == [code |-> code, message |-> message]
NoError == JsonRpcError(0, NoKey)
BadError == JsonRpcError(0, "<malformed>")

\* One line of the stream: blank, not JSON, a JSON value that is no object,
\* or a JSON object with the keys the engine reads.
Frame(form, id, method, params, result, error) ==
    [form |-> form, id |-> id, method |-> method, params |-> params,
     result |-> result, error |-> error]
BlankLine == Frame("blank", Absent, NoMethod, NoParams, NoKey, NoError)
MalformedLine == Frame("malformed", Absent, NoMethod, NoParams, NoKey, NoError)
NonObjectLine == Frame("nonobject", Absent, NoMethod, NoParams, NoKey, NoError)
NoLine == Frame("none", Absent, NoMethod, NoParams, NoKey, NoError)
\* next_line() returned Ok(None): the peer has closed the stream
EndOfStream == Frame("end", Absent, NoMethod, NoParams, NoKey, NoError)
\* next_line() returned Err(e): reading failed
ReadError == Frame("error", Absent, NoMethod, NoParams, NoKey, NoError)

\* A loop without the test for the empty line
is_empty_never(msg) == FALSE

\* line.is_empty(): the line has no character (next_line() has taken the
\* line terminator off); a line of spaces is not empty, it is a line that
\* is not JSON
is_empty(msg) == msg.form = "blank"

\* serde_json::from_str(line).is_ok(): the empty text is no JSON value either
from_str_ok(msg) == msg.form \notin {"blank", "malformed"}

(* ------------------------------ errors --------------------------------- *)
AcpErrorKinds ==
    {"ParseError", "InvalidRequest", "MethodNotFound", "InvalidParams",
     "InternalError", "ResourceNotFound", "PermissionDenied", "InvalidState",
     "CapabilityNotSupported", "IoError", "JsonError", "ChannelError",
     "ConnectionClosed", "Timeout"}

\* Every error reported with the code of an internal error
code_unmapped(e) == INTERNAL_ERROR

\* A table in which the errors of the operating system keep no code of
\* their own kind: a failed I/O operation is reported as a missing resource
code_io_as_not_found(e) ==
    CASE e = "ParseError" -> PARSE_ERROR
      [] e = "InvalidRequest" -> INVALID_REQUEST
      [] e = "MethodNotFound" -> METHOD_NOT_FOUND
      [] e = "InvalidParams" -> INVALID_PARAMS
      [] e = "InternalError" -> INTERNAL_ERROR
      [] e = "ResourceNotFound" -> RESOURCE_NOT_FOUND
      [] e = "PermissionDenied" -> PERMISSION_DENIED
      [] e = "InvalidState" -> INVALID_STATE
      [] e = "CapabilityNotSupported" -> CAPABILITY_NOT_SUPPORTED
      [] e = "IoError" -> RESOURCE_NOT_FOUND
      [] e = "JsonError" -> PARSE_ERROR
      [] e = "ChannelError" -> INTERNAL_ERROR
      [] e = "ConnectionClosed" -> INTERNAL_ERROR
      [] e = "Timeout" -> INTERNAL_ERROR

\* AcpError::code
code(e) ==
    CASE e = "ParseError" -> PARSE_ERROR
      [] e = "InvalidRequest" -> INVALID_REQUEST
      [] e = "MethodNotFound" -> METHOD_NOT_FOUND
      [] e = "InvalidParams" -> INVALID_PARAMS
      [] e = "InternalError" -> INTERNAL_ERROR
      [] e = "ResourceNotFound" -> RESOURCE_NOT_FOUND
      [] e = "PermissionDenied" -> PERMISSION_DENIED
      [] e = "InvalidState" -> INVALID_STATE
      [] e = "CapabilityNotSupported" -> CAPABILITY_NOT_SUPPORTED
      [] e = "IoError" -> INTERNAL_ERROR
      [] e = "JsonError" -> PARSE_ERROR
      [] e = "ChannelError" -> INTERNAL_ERROR
      [] e = "ConnectionClosed" -> INTERNAL_ERROR
      [] e = "Timeout" -> INTERNAL_ERROR

\* AcpResult<Value>
Ok(value) == [ok |-> TRUE, val |-> value]
Err(e) == [ok |-> FALSE, val |-> e]

(* --------------------------- protocol data ----------------------------- *)
\* Server::handle_request's match arms
ServerMethods ==
    {"initialize", "authenticate", "session/new", "session/load",
     "session/prompt", "session/cancel"}

\* The fields without #[serde(default)] or Option of each params struct
Required(method) ==
    CASE method = "initialize" ->
            {"protocol_version", "client_info", "capabilities", "working_directory"}
      [] method = "authenticate" -> {"type"}
      [] method = "session/new" -> {"session_id"}
      [] method = "session/load" -> {"session_id"}
      [] method = "session/prompt" -> {"session_id", "content"}
      [] method = "session/cancel" -> {"session_id"}
      [] OTHER -> {}

\* A decoder that fills in what is missing
Decodes_lenient(method, params) == TRUE

\* serde_json::from_value::<P>(params).is_ok(): unknown fields are ignored,
\* every required field must be there.
Decodes(method, params) == Required(method) \subseteq params.fields

\* serde_json::to_value(result) of what the agent method returned
\* (session/cancel returns Value::Null, the others a result struct)
ResultOf(method) == IF method = "session/cancel" THEN "null" ELSE "object"

\* struct JsonRpcResponse {id, result: Option<Value>, error: Option<JsonRpcError>}
NoneError == JsonRpcError(0, None)
JsonRpcResponse(id, result, error) == [id |-> id, result |-> result, error |-> error]
NoResponse == JsonRpcResponse(Absent, None, NoneError)

\* serde_json::to_string(&JsonRpcResponse): #[serde(skip_serializing_if = "Option::is_none")]
\* drops a None result / error; Some(Value::Null) is written as "result":null.
response_to_string(resp) ==
    Frame("object", resp.id, NoMethod, NoParams,
          IF resp.result = None THEN NoKey ELSE resp.result,
          IF resp.error = NoneError THEN NoError ELSE resp.error)

\* The outcome of a decode that fails
DecodeError == "<decode error>"

\* serde_json::from_str::<JsonRpcResponse>(text), the derived Deserialize:
\* `id` is required; an Option field is None when its key is missing and
\* also when its value is null (Option<Value> cannot hold Some(Null) after
\* a decode); `error` must be a JsonRpcError object
from_str_response(frame) ==
    IF frame.form # "object" \/ frame.id = Absent \/ frame.error = BadError
    THEN DecodeError
    ELSE JsonRpcResponse(frame.id,
                         IF frame.result \in {NoKey, "null"} THEN None ELSE frame.result,
                         IF frame.error = NoError THEN NoneError ELSE frame.error)

\* The JsonRpcResponse both reader loops build from a Response frame
response_from_msg(msg) ==
    JsonRpcResponse(msg.id,
                    IF msg.result = NoKey THEN None ELSE msg.result,
                    IF msg.error \in {NoError, BadError} THEN NoneError ELSE msg.error)

\* The Response handle_message builds from handle_request's AcpResult
response_of(id, result) ==
    IF result.ok
    THEN JsonRpcResponse(id, result.val, NoneError)
    ELSE JsonRpcResponse(id, None, JsonRpcError(code(result.val), result.val))

\* struct SessionUpdate {session_id, #[serde(flatten)] update_type}
UpdateTypes ==
    {"agent_message_chunk", "agent_thought_chunk", "tool_call", "tool_call_update",
     "plan", "mode_change", "done"}
SessionUpdate(sid, type, data) == [session_id |-> sid, type |-> type, data |-> data]

\* serde_json::to_string(&JsonRpcNotification {method: "session/update", params: to_value(&update)}):
\* #[serde(tag = "type", content = "data")] writes no `data` for the unit
\* variant Done
notification_to_string(update) ==
    Frame("object", Absent, "session/update",
          [fields |-> IF update.type = "done" THEN {"session_id", "type"}
                      ELSE {"session_id", "type", "data"},
           sid |-> update.session_id,
           tid |-> 0, abs |-> FALSE, type |-> update.type, data |-> update.data],
          NoKey, NoError)

\* serde_json::from_value::<SessionUpdate>(params): session_id, the tag and,
\* for every variant but Done, the content
from_value_update(params) ==
    IF /\ {"session_id", "type"} \subseteq params.fields
       /\ params.type \in UpdateTypes
       /\ params.type = "done" \/ "data" \in params.fields
    THEN SessionUpdate(params.sid, params.type, params.data)
    ELSE DecodeError

\* serde_json::to_string(&JsonRpcRequest {id: Some(id), method, params: Some(params)})
request_to_string(id, method) ==
    Frame("object", id, method, NoParams, NoKey, NoError)

\* serde_json::from_str::<JsonRpcRequest>(text): `method` is a required
\* String, id: Option<Value> is None for a missing key and for null
JsonRpcRequest(id, method) == [id |-> id, method |-> method]
from_str_request(frame) ==
    IF frame.form # "object" \/ ~method_is_str(frame)
    THEN DecodeError
    ELSE JsonRpcRequest(IF frame.id \in {Absent, Null} THEN None ELSE frame.id, frame.method)

(* ------------------------------- state --------------------------------- *)
VARIABLES
    role,              \* which end of the connection this engine is
    nread,             \* results the reader loop has taken from next_line()
    pc,                \* where the reader / dispatch loop stands
    line,              \* what next_line() returned last
    last,              \* what the loop did with the line it handled last
    agent,             \* where the session_prompt handler of the agent stands
    pushed,            \* updates the session/prompt handlers have pushed so far
    update_rx,         \* update sink: mpsc::channel::<SessionUpdate>
    forwarder,         \* the update forwarder task
    message_rx,        \* outbound queue: response_rx (server), message_rx (client)
    writer,            \* the writer task (owner of the queue's receiver)
    wire,              \* frames written to the transport, in write order
    pending_requests,  \* correlation table: id_str -> the caller's oneshot sender
    next_id,           \* next_request_id (server), next_id (client)
    calls,             \* the send_request calls: position, id, oneshot receiver
    term_mgr,          \* the client's TerminalManager
    removed            \* history: the terminal ids taken out of the tables, and by what

vars ==
    <<role, nread, pc, line, last, agent, pushed, update_rx, forwarder,
      message_rx, writer, wire, pending_requests, next_id, calls, term_mgr, removed>>

\* Every send_request call is made by a task of its own
Callers == 1..MaxInputs

\* Environment events so far: results of next_line(), request IDs allocated,
\* updates pushed, the failed write, elapsed timeouts
Inputs ==
    nread + (next_id - 1) + pushed
      + (IF writer = "stopped" THEN 1 ELSE 0)
      + Cardinality({c \in Callers : calls[c].ret = Err("Timeout")})

\* oneshot::channel(): nothing sent yet, a value sent, or the receiver dropped
RxEmpty == [state |-> "empty", resp |-> NoResponse]
RxReady(resp) == [state |-> "ready", resp |-> resp]
RxDropped == [state |-> "dropped", resp |-> NoResponse]

\* `by`: who awaits the call: a task of its own, or the session_prompt
\* handler the main loop is awaiting
NoCall ==
    [pc |-> "start", id |-> 0, method |-> "", by |-> "task", rx |-> RxEmpty, ret |-> Ok(None)]

\* HashMap::new()
EmptyMap == [k \in {} |-> 0]

\* What became of a line: its class, and the collaborator operation
\* (Agent method, filesystem or terminal operation) that was called for it
Handled(class, op) == [class |-> class, invoked |-> op]

Init ==
    /\ role \in {"server", "client"}
    /\ nread = 0
    /\ pc = "next_line"
    /\ line = NoLine
    /\ last = Handled("none", "none")
    /\ agent = "idle"
    /\ pushed = 0
    /\ update_rx = <<>>
    /\ forwarder = "running"
    /\ message_rx = <<>>
    /\ writer = "running"
    /\ wire = <<>>
    /\ pending_requests = EmptyMap
    /\ next_id = 1
    /\ calls = [c \in Callers |-> NoCall]
    /\ term_mgr = [terminals |-> EmptyMap, outputs |-> EmptyMap, next_id |-> 1]
    /\ removed = EmptyMap

(* ----------------------------- the peer -------------------------------- *)
Sessions == {"s1"}
RequestIds == {Absent, Num(1)}
\* ids of the Responses the peer may send: every id allocated so far, the
\* next one (not allocated yet), and the string "1"
ResponseIds == {Str(1)} \cup {Num(n) : n \in 1..next_id}

\* params the peer may attach to a call of `method`: complete, one required
\* field short, or none
ParamChoices(method) ==
    LET req == Required(method)
    IN  {Params(req, sid, 0, FALSE) : sid \in Sessions}
          \cup {Params(req \ {f}, "s1", 0, FALSE) : f \in {g \in req : g = CHOOSE h \in req : TRUE}}
          \cup {NoParams}

PeerMethods == ServerMethods \cup {"unknown/method", NonStringMethod}

\* Frames with a `method` key: Requests and Notifications
MethodLines ==
    UNION {{Frame("object", id, m, p, NoKey, NoError) : id \in RequestIds, p \in ParamChoices(m)}
             : m \in PeerMethods}

PeerResults == {NoKey, "object"}
PeerErrors == {NoError, BadError, JsonRpcError(INTERNAL_ERROR, "peer error")}

\* Frames without a `method` key: Responses, and an object with neither key
NoMethodLines ==
    {Frame("object", id, NoMethod, NoParams, r, e) :
        id \in ResponseIds, r \in PeerResults, e \in PeerErrors}
      \cup {Frame("object", Absent, NoMethod, NoParams, NoKey, NoError)}

PeerLines == {BlankLine, MalformedLine, NonObjectLine} \cup MethodLines \cup NoMethodLines

(* ------------------------- correlation table --------------------------- *)
\* HashMap::insert
insert(table, key, value) ==
    [k \in DOMAIN table \cup {key} |-> IF k = key THEN value ELSE table[k]]

\* HashMap::clear in the place of remove: every entry goes
remove_clear(table, key) == [k \in {} |-> table[k]]

\* HashMap::remove: the table without the entry
remove(table, key) == [k \in DOMAIN table \ {key} |-> table[k]]

\* A send that reaches the caller although its receiver is gone
resolve_revives(msg) ==
    LET key == to_string(msg.id)
    IN  IF key \in DOMAIN pending_requests
        THEN [calls EXCEPT ![pending_requests[key]].rx = RxReady(response_from_msg(msg))]
        ELSE calls

\* Lowest-numbered caller with an entry in the table
oldest == CHOOSE c \in Callers :
    /\ \E k \in DOMAIN pending_requests : pending_requests[k] = c
    /\ \A k \in DOMAIN pending_requests : pending_requests[k] >= c

\* Responses matched to calls in the order of the calls instead of by id
resolve_oldest(msg) ==
    IF to_string(msg.id) \in DOMAIN pending_requests /\ calls[oldest].rx.state = "empty"
    THEN [calls EXCEPT ![oldest].rx = RxReady(response_from_msg(msg))]
    ELSE calls

\* if let Some(tx) = pending.remove(&id_str) { let _ = tx.send(response); }:
\* the value reaches the receiver of the removed entry unless that receiver
\* was dropped
resolve(msg) ==
    LET key == to_string(msg.id)
    IN  IF key \in DOMAIN pending_requests
        THEN LET c == pending_requests[key]
             IN  IF calls[c].rx.state = "empty"
                 THEN [calls EXCEPT ![c].rx = RxReady(response_from_msg(msg))]
                 ELSE calls
        ELSE calls

(* ------------------------------ server --------------------------------- *)
\* Outcomes of an Agent method: Ok, or an error the agent returns
AgentOutcomes == {"ok", "InvalidState"}

\* Server::handle_request for the methods that return at once: the AcpResult
\* and the Agent method called
handle_request(method, params, outcome) ==
    IF method \notin ServerMethods
    THEN [ret |-> Err("MethodNotFound"), invoked |-> "none"]
    ELSE IF ~Decodes(method, params)
    THEN [ret |-> Err("InvalidParams"), invoked |-> "none"]
    ELSE [ret |-> IF outcome = "ok" THEN Ok(ResultOf(method)) ELSE Err(outcome),
          invoked |-> method]

\* The session/prompt arm reaches agent.session_prompt(params, update_tx)
starts_prompt(msg) ==
    /\ msg.form \in {"object", "nonobject"}
    /\ method_is_str(msg)
    /\ msg.method = "session/prompt"
    /\ Decodes(msg.method, msg.params)

\* The session_prompt handler stands inside a send_request it made (the
\* helpers of client_requests): sequential code, it goes on when the call
\* has returned
handler_in_call == \E c \in Callers : calls[c].by = "handler" /\ calls[c].pc # "returned"

\* A loop that spawns the session/prompt handler and reads on
loop_ready_beside_prompt == pc \in {"next_line", "session_prompt"}

\* A loop that takes the next line while a handler is still running
loop_ready_during_handler == pc # "stopped"

\* The reader loop is ready to take the next line: `lines.next_line().await`
\* is reached only when the handling of the line before has returned
loop_ready == pc = "next_line"

\* A loop that sends the Response whether or not the frame had an id
main_loop_send_always(has_response, resp) ==
    /\ message_rx' = Append(message_rx, response_to_string(resp))
    /\ pc' = "next_line"

\* Server::run, lines 184-189: enqueue the Response handle_message returned;
\* leave the loop when the queue is closed
main_loop_send(has_response, resp) ==
    IF has_response
    THEN IF writer = "running"
         THEN /\ message_rx' = Append(message_rx, response_to_string(resp))
              /\ pc' = "next_line"
         ELSE /\ message_rx' = message_rx
              /\ pc' = "stopped"
    ELSE /\ message_rx' = message_rx
         /\ pc' = "next_line"

\* The parse failure reported with the code of an invalid request
parse_error_as_invalid_request ==
    JsonRpcResponse(Null, None, JsonRpcError(INVALID_REQUEST, "ParseError"))

\* The Response handle_message returns for a line serde_json cannot parse
parse_error_response ==
    JsonRpcResponse(Null, None, JsonRpcError(PARSE_ERROR, "ParseError"))

\* A handle_message that reports a frame it cannot classify
unclassified_reply_invalid_request ==
    [some |-> TRUE,
     resp |-> JsonRpcResponse(Null, None, JsonRpcError(INVALID_REQUEST, "InvalidRequest"))]

\* handle_message for a frame with neither a string `method` nor an `id`:
\* neither branch is taken and the function ends with its final `None`
unclassified_reply == [some |-> FALSE, resp |-> NoResponse]

\* Server::handle_message for a line that is handled at once, and the send
\* of the loop
server_handle_message(msg) ==
    IF ~from_str_ok(msg)
    THEN /\ main_loop_send(TRUE, parse_error_response)
         /\ last' = Handled("parse_error", "none")
         /\ UNCHANGED <<pending_requests, calls>>
    ELSE IF method_is_str(msg)
    THEN \E outcome \in AgentOutcomes :
           LET r == handle_request(msg.method, msg.params, outcome)
           IN  /\ main_loop_send(has_id(msg), response_of(msg.id, r.ret))
               /\ last' = Handled(IF has_id(msg) THEN "request" ELSE "notification",
                                  r.invoked)
               /\ UNCHANGED <<pending_requests, calls>>
    ELSE IF has_id(msg)
    THEN /\ pending_requests' = remove(pending_requests, to_string(msg.id))
         /\ calls' = resolve(msg)
         /\ main_loop_send(FALSE, NoResponse)
         /\ last' = Handled(IF to_string(msg.id) \in DOMAIN pending_requests
                            THEN "response" ELSE "stray_response", "none")
    ELSE /\ main_loop_send(unclassified_reply.some, unclassified_reply.resp)
         /\ last' = Handled("ignored", "none")
         /\ UNCHANGED <<pending_requests, calls>>

\* One turn of the main loop for a line whose handling returns at once:
\* next_line, the blank-line test, handle_message, the send
ServerHandleLine ==
    /\ role = "server"
    /\ loop_ready
    /\ Inputs < MaxInputs
    /\ Len(message_rx) < CHANNEL_CAPACITY
    /\ nread' = nread + 1
    /\ \E msg \in PeerLines :
         /\ ~starts_prompt(msg)
         /\ line' = msg
         /\ IF is_empty(msg)
            THEN /\ last' = Handled("blank", "none")
                 /\ UNCHANGED <<pc, message_rx, pending_requests, calls>>
            ELSE server_handle_message(msg)
    /\ UNCHANGED <<role, agent, term_mgr, removed, pushed, update_rx, forwarder, writer, wire, next_id>>

\* The loop reads a session/prompt call and enters agent.session_prompt
ServerPromptStart ==
    /\ role = "server"
    /\ loop_ready
    /\ Inputs < MaxInputs
    /\ nread' = nread + 1
    /\ \E msg \in PeerLines :
         /\ starts_prompt(msg)
         /\ line' = msg
    /\ pc' = "session_prompt"
    /\ agent' = "streaming"
    /\ UNCHANGED <<role, term_mgr, removed, last, pushed, update_rx, forwarder, message_rx, writer, wire,
                   pending_requests, next_id, calls>>

\* The handler pushes one of the updates that come before its Done (thought,
\* plan, tool call, chunks): update_tx.send(update).await; the result of the
\* send is the handler's to ignore
PushTypes == {"agent_message_chunk"}

PromptPush ==
    /\ role = "server"
    /\ pc = "session_prompt"
    /\ agent = "streaming"
    /\ ~handler_in_call
    /\ pushed < MaxUpdates
    /\ Inputs < MaxInputs
    /\ Len(update_rx) < CHANNEL_CAPACITY
    /\ pushed' = pushed + 1
    /\ \E type \in PushTypes :
         update_rx' =
            IF forwarder = "running"
            THEN Append(update_rx,
                        SessionUpdate(line.params.sid, type,
                                      [inv |-> nread, k |-> pushed + 1]))
            ELSE update_rx
    /\ UNCHANGED <<role, agent, term_mgr, removed, nread, pc, line, last, forwarder, message_rx,
                   writer, wire, pending_requests, next_id, calls>>

\* A handler that sends Done and streams on
agent_after_done_streams == "streaming"

\* Past the send of Done the handler has one statement left, its return
agent_after_done == "done_sent"

\* The handler's last send: SessionUpdateType::Done, the update without
\* data; like every send of the handler it ignores a closed sink
PromptDone ==
    /\ role = "server"
    /\ pc = "session_prompt"
    /\ agent = "streaming"
    /\ ~handler_in_call
    /\ Len(update_rx) < CHANNEL_CAPACITY
    /\ pushed' = pushed + 1
    /\ update_rx' =
          IF forwarder = "running"
          THEN Append(update_rx,
                      SessionUpdate(line.params.sid, "done",
                                    [inv |-> nread, k |-> pushed + 1]))
          ELSE update_rx
    /\ agent' = agent_after_done
    /\ UNCHANGED <<role, term_mgr, removed, nread, pc, line, last, forwarder, message_rx,
                   writer, wire, pending_requests, next_id, calls>>

\* The handler returns; handle_message wraps its result into the Response
\* (a Request) or drops it (a Notification), and the loop sends it
PromptReturn ==
    /\ role = "server"
    /\ pc = "session_prompt"
    /\ agent = "done_sent"
    /\ agent' = "idle"
    /\ ~handler_in_call
    /\ Len(message_rx) < CHANNEL_CAPACITY
    /\ \E outcome \in AgentOutcomes :
         main_loop_send(has_id(line),
                        response_of(line.id,
                                    IF outcome = "ok" THEN Ok(ResultOf("session/prompt"))
                                    ELSE Err(outcome)))
    /\ last' = Handled(IF has_id(line) THEN "request" ELSE "notification", "session/prompt")
    /\ UNCHANGED <<role, term_mgr, removed, nread, line, pushed, update_rx, forwarder,
                   writer, wire, pending_requests, next_id, calls>>

\* The peer closes the stream, or reading fails: next_line() yields Ok(None)
\* or Err; `while let Ok(Some(line))` matches neither and the loop ends
ReaderEnd ==
    /\ loop_ready
    /\ Inputs < MaxInputs
    /\ nread' = nread + 1
    /\ line' \in {EndOfStream, ReadError}
    /\ last' = Handled("end", "none")
    /\ pc' = "stopped"
    /\ UNCHANGED <<role, agent, term_mgr, removed, pushed, update_rx, forwarder,
                   message_rx, writer, wire, pending_requests, next_id, calls>>

\* main of the shipped server: `server.run().await?` has returned, main
\* returns and the runtime of #[tokio::main] is dropped.  run has joined
\* neither of the tasks it spawned, so the writer and the forwarder end
\* where they stand and the frames still in their channels go with them.
MainReturn ==
    /\ role = "server"
    /\ pc = "stopped"
    /\ writer = "running" \/ forwarder = "running"
    /\ writer' = "stopped"
    /\ forwarder' = "stopped"
    /\ message_rx' = <<>>
    /\ update_rx' = <<>>
    /\ UNCHANGED <<role, agent, term_mgr, removed, nread, pc, line, last, pushed, wire,
                   pending_requests, next_id, calls>>

\* What Server::run has returned: the `Ok(())` after the loop, however the
\* loop was left (Ok(None) while run is still in its loop)
run_result == IF role = "server" /\ pc = "stopped" THEN Ok("()") ELSE Ok(None)

\* A receive that takes the newest message of the queue
recv_newest(queue) ==
    [msg |-> queue[Len(queue)], rest |-> SubSeq(queue, 1, Len(queue) - 1)]

\* mpsc::Receiver::recv: the oldest message, and the queue without it
recv(queue) == [msg |-> Head(queue), rest |-> Tail(queue)]

\* The update forwarder task: one turn of `while let Some(update) = update_rx.recv()`
Forward ==
    /\ role = "server"
    /\ forwarder = "running"
    /\ update_rx # <<>>
    /\ Len(message_rx) < CHANNEL_CAPACITY
    /\ IF writer = "running"
       THEN /\ message_rx' = Append(message_rx, notification_to_string(recv(update_rx).msg))
            /\ update_rx' = recv(update_rx).rest
            /\ forwarder' = forwarder
       ELSE /\ message_rx' = message_rx
            /\ update_rx' = <<>>
            /\ forwarder' = "stopped"
    /\ UNCHANGED <<role, agent, term_mgr, removed, nread, pc, line, last, pushed, writer, wire,
                   pending_requests, next_id, calls>>

\* A writer that takes whichever frame of the queue it finds
Write_any ==
    /\ writer = "running"
    /\ \E i \in DOMAIN message_rx :
         /\ wire' = Append(wire, message_rx[i])
         /\ message_rx' = SubSeq(message_rx, 1, i - 1)
                             \o SubSeq(message_rx, i + 1, Len(message_rx))
    /\ UNCHANGED <<role, agent, term_mgr, removed, nread, pc, line, last, pushed, update_rx,
                   forwarder, writer, pending_requests, next_id, calls>>

\* The writer task: one turn of `while let Some(msg) = rx.recv()`: the frame,
\* the newline, the flush
Write ==
    /\ writer = "running"
    /\ message_rx # <<>>
    /\ wire' = Append(wire, recv(message_rx).msg)
    /\ message_rx' = recv(message_rx).rest
    /\ UNCHANGED <<role, agent, term_mgr, removed, nread, pc, line, last, pushed, update_rx,
                   forwarder, writer, pending_requests, next_id, calls>>

\* write_all / flush fails: the task breaks out of its loop, the receiver
\* and what it still holds are dropped
WriteFail ==
    /\ writer = "running"
    /\ message_rx # <<>>
    /\ Inputs < MaxInputs
    /\ writer' = "stopped"
    /\ message_rx' = <<>>
    /\ UNCHANGED <<role, agent, term_mgr, removed, nread, pc, line, last, pushed, update_rx,
                   forwarder, wire, pending_requests, next_id, calls>>

(* ------------------------- terminal manager ---------------------------- *)
\* A Child: still running as far as the handle knows, or reaped with its exit
\* status (an exit code, or death by a signal)
ChildStates == {"running", "exit0", "signaled"}

\* The Child handle: the status it has seen, and what the process writes
\* into its stdout pipe (Stdio::piped()) before it ends
Child(status, stdout) == [status |-> status, stdout |-> stdout]

\* What a spawned command writes: nothing (`true`), or a line (`echo hello`)
Texts == {"", "hello"}

\* child.try_wait(): Ok(None) while the process runs, Ok(Some(status)) once
\* it has ended; the handle keeps the status it has seen
try_wait(child) == IF child.status = "running" THEN ChildStates ELSE {child.status}

\* A status whose exit code is lost
status_code_lost(status) == None

\* ExitStatus::code(): Some(code) of an exit, None of a death by signal
status_code(status) == IF status = "exit0" THEN "0" ELSE None

\* format!("term_{}", self.next_id): the tables are keyed by the number n
\* that stands for the string term_n
format_id(n) == "term_" \o Numerals[n]

\* struct TerminalManager {terminals, outputs, next_id}
TerminalManager(terminals, outputs, n) ==
    [terminals |-> terminals, outputs |-> outputs, next_id |-> n]

\* A create that hands out the lowest id that is free in the table
create_lowest_free(mgr, spawned, stdout) ==
    LET id == CHOOSE n \in 1..9 :
                /\ n \notin DOMAIN mgr.terminals
                /\ \A m \in 1..(n - 1) : m \in DOMAIN mgr.terminals
    IN  IF spawned
        THEN [ret |-> Ok(format_id(id)),
              mgr |-> TerminalManager(insert(mgr.terminals, id, Child("running", stdout)),
                                      insert(mgr.outputs, id, ""),
                                      mgr.next_id + 1)]
        ELSE [ret |-> Err("IoError"),
              mgr |-> TerminalManager(mgr.terminals, mgr.outputs, mgr.next_id + 1)]

\* TerminalManager::create: the id is taken before the spawn; `stdout` is
\* what the spawned command writes
create(mgr, spawned, stdout) ==
    IF spawned
    THEN [ret |-> Ok(format_id(mgr.next_id)),
          mgr |-> TerminalManager(insert(mgr.terminals, mgr.next_id, Child("running", stdout)),
                                  insert(mgr.outputs, mgr.next_id, ""),
                                  mgr.next_id + 1)]
    ELSE [ret |-> Err("IoError"),
          mgr |-> TerminalManager(mgr.terminals, mgr.outputs, mgr.next_id + 1)]

\* A lookup that falls back to a default for an id it does not find
get_output_or_default(mgr, tid, status) ==
    [ret |-> Ok("tuple"), output |-> "", exited |-> status # "running",
     exit_code |-> IF status = "running" THEN None ELSE status_code(status), mgr |-> mgr]

\* TerminalManager::get_output, `status` being what try_wait returns: the
\* tuple (output, exited, exit_code), output being self.outputs[id]
get_output(mgr, tid, status) ==
    IF tid \notin DOMAIN mgr.terminals
    THEN [ret |-> Err("ResourceNotFound"), output |-> "", exited |-> FALSE,
          exit_code |-> None, mgr |-> mgr]
    ELSE [ret |-> Ok("tuple"),
          output |-> IF tid \in DOMAIN mgr.outputs THEN mgr.outputs[tid] ELSE "",
          exited |-> status # "running",
          exit_code |-> IF status = "running" THEN None ELSE status_code(status),
          mgr |-> [mgr EXCEPT !.terminals[tid].status = status]]

\* TerminalManager::kill
kill(mgr, tid) ==
    IF tid \in DOMAIN mgr.terminals
    THEN [ret |-> Ok("object"),
          mgr |-> TerminalManager(remove(mgr.terminals, tid), remove(mgr.outputs, tid),
                                  mgr.next_id)]
    ELSE [ret |-> Err("ResourceNotFound"), mgr |-> mgr]

\* TerminalManager::kill suspended at child.kill().await: the Child is out
\* of `terminals`, self.outputs.remove has not run yet
kill_await(mgr, tid) ==
    TerminalManager(remove(mgr.terminals, tid), mgr.outputs, mgr.next_id)

\* A release that forgets the captured output of the terminal
release_keeps_output(mgr, tid) ==
    [ret |-> Ok("object"),
     mgr |-> TerminalManager(remove(mgr.terminals, tid), mgr.outputs, mgr.next_id)]

\* TerminalManager::release
release(mgr, tid) ==
    [ret |-> Ok("object"),
     mgr |-> TerminalManager(remove(mgr.terminals, tid), remove(mgr.outputs, tid),
                             mgr.next_id)]

(* ------------------------------ client --------------------------------- *)
\* Client::handle_agent_request's match arms
ClientMethods ==
    {"fs/read_text_file", "fs/write_text_file", "terminal/create", "terminal/output",
     "terminal/wait_for_exit", "terminal/kill", "terminal/release"}

\* The fields each arm reads with params["..."].as_str()
ClientRequired(method) ==
    CASE method = "fs/read_text_file" -> {"path"}
      [] method = "fs/write_text_file" -> {"path", "content"}
      [] method = "terminal/create" -> {"cwd", "command"}
      [] method \in {"terminal/output", "terminal/wait_for_exit", "terminal/kill",
                     "terminal/release"} -> {"terminal_id"}
      [] OTHER -> {}

\* What the operating system does for one request: the file operation and
\* the spawn succeed or fail, try_wait reports a status, the spawned command
\* writes a text
Env(fs, spawned, status, stdout) ==
    [fs |-> fs, spawned |-> spawned, status |-> status, stdout |-> stdout]

\* The text of a JSON value: bool, Option<i32>
json_bool(b) == IF b THEN "true" ELSE "false"
json_option(c) == IF c = None THEN "null" ELSE c

\* serde_json::json!({"terminal_id": terminal_id})
created_json(terminal_id) == "{\"terminal_id\":\"" \o terminal_id \o "\"}"

\* serde_json::json!({"output": output, "exited": exited, "exit_code": exit_code})
output_json(output, exited, exit_code) ==
    "{\"exit_code\":" \o json_option(exit_code) \o ",\"exited\":" \o json_bool(exited)
      \o ",\"output\":\"" \o output \o "\"}"

\* A wait_for_exit that passes the missing exit code on as null
wait_for_exit_json_null(output, exit_code) ==
    "{\"exit_code\":" \o json_option(exit_code) \o ",\"output\":\"" \o output \o "\"}"

\* serde_json::json!({"output": output, "exit_code": exit_code.unwrap_or(-1)})
wait_for_exit_json(output, exit_code) ==
    "{\"exit_code\":" \o (IF exit_code = None THEN "-1" ELSE exit_code)
      \o ",\"output\":\"" \o output \o "\"}"

\* The result of terminal/wait_for_exit for the poll that ends its loop
wait_for_exit_result(r) ==
    IF r.ret.ok THEN Ok(wait_for_exit_json(r.output, r.exit_code)) ELSE r.ret

\* Client::handle_agent_request: the AcpResult, the collaborator operation
\* called, the TerminalManager afterwards; `waits`: the first poll of
\* terminal/wait_for_exit found the process running and the handler sleeps
handle_agent_request(method, params, mgr, env) ==
    LET reply(ret, op, m) == [ret |-> ret, invoked |-> op, mgr |-> m, waits |-> FALSE]
    IN  IF method \notin ClientMethods
        THEN reply(Err("MethodNotFound"), "none", mgr)
        ELSE IF ~(ClientRequired(method) \subseteq params.fields)
        THEN reply(Err("InvalidParams"), "none", mgr)
        ELSE CASE method = "fs/read_text_file" ->
                    IF ~params.abs THEN reply(Err("InvalidParams"), "none", mgr)
                    ELSE reply(IF env.fs THEN Ok("object") ELSE Err("ResourceNotFound"),
                               "read_to_string", mgr)
               [] method = "fs/write_text_file" ->
                    IF ~params.abs THEN reply(Err("InvalidParams"), "none", mgr)
                    ELSE reply(IF env.fs THEN Ok("object") ELSE Err("PermissionDenied"),
                               "write", mgr)
               [] method = "terminal/create" ->
                    LET r == create(mgr, env.spawned, env.stdout)
                    IN  reply(IF r.ret.ok THEN Ok(created_json(r.ret.val)) ELSE r.ret,
                              "create", r.mgr)
               [] method = "terminal/output" ->
                    LET r == get_output(mgr, params.tid, env.status)
                    IN  reply(IF r.ret.ok
                              THEN Ok(output_json(r.output, r.exited, r.exit_code))
                              ELSE r.ret,
                              "get_output", r.mgr)
               [] method = "terminal/wait_for_exit" ->
                    LET r == get_output(mgr, params.tid, env.status)
                    IN  [ret |-> wait_for_exit_result(r), invoked |-> "get_output",
                         mgr |-> r.mgr, waits |-> r.ret.ok /\ ~r.exited]
               [] method = "terminal/kill" ->
                    LET r == kill(mgr, params.tid)
                    IN  reply(r.ret, "kill", r.mgr)
               [] method = "terminal/release" ->
                    LET r == release(mgr, params.tid)
                    IN  reply(r.ret, "release", r.mgr)

(* --------------------------- the agent peer ---------------------------- *)
TerminalIds == {1, 2}

\* params the agent may attach to a call of `method`: complete (for a file,
\* with an absolute or a relative path), one required field short, or none
ClientParamChoices(method) ==
    LET req == ClientRequired(method)
    IN  {Params(req, "", tid, abs) :
            tid \in IF "terminal_id" \in req THEN TerminalIds ELSE {0},
            abs \in IF "path" \in req THEN BOOLEAN ELSE {FALSE}}
          \cup {Params(req \ {f}, "", 0, FALSE) : f \in {g \in req : g = CHOOSE h \in req : TRUE}}
          \cup {NoParams}

AgentMethods == ClientMethods \cup {"unknown/method", NonStringMethod}

AgentRequestLines ==
    UNION {{Frame("object", Num(1), m, p, NoKey, NoError) : p \in ClientParamChoices(m)}
             : m \in AgentMethods}

\* Notifications: session/update of a type with a callback, of an unknown
\* type, an agent_message_chunk without its data, without params, and a
\* method the client does not know
AgentNotificationLines ==
    {notification_to_string(SessionUpdate("s1", type, NoData)) :
        type \in {"agent_message_chunk", "done", "unknown_type"}}
      \cup {Frame("object", Absent, "session/update",
                  [NoParams EXCEPT !.fields = {"session_id", "type"}, !.sid = "s1",
                                   !.type = "agent_message_chunk"],
                  NoKey, NoError)}
      \cup {Frame("object", Absent, m, NoParams, NoKey, NoError) :
              m \in {"session/update", "unknown/method"}}

ClientPeerLines ==
    {BlankLine, MalformedLine, NonObjectLine}
      \cup AgentRequestLines \cup AgentNotificationLines \cup NoMethodLines

(* -------------------------- the reader task ---------------------------- *)
\* The Response the reader task builds with serde_json::json!
client_response(id, ret) ==
    IF ret.ok
    THEN Frame("object", id, NoMethod, NoParams, ret.val, NoError)
    ELSE Frame("object", id, NoMethod, NoParams, NoKey,
               JsonRpcError(code(ret.val), ret.val))

\* let _ = message_tx_clone.send(response.to_string()).await
reader_send(frame) ==
    message_rx' = IF writer = "running" THEN Append(message_rx, frame) ELSE message_rx

\* trait UpdateHandler: the callback of each update type
callback_of(type) ==
    CASE type = "agent_message_chunk" -> "on_agent_message"
      [] type = "agent_thought_chunk" -> "on_agent_thought"
      [] type = "tool_call" -> "on_tool_call"
      [] type = "tool_call_update" -> "on_tool_update"
      [] type = "plan" -> "on_plan"
      [] type = "mode_change" -> "on_mode_change"
      [] type = "done" -> "on_done"
      [] OTHER -> "none"

\* The UpdateHandler callback of the notification branch: the match on
\* params["type"], and in every arm but "done" the test that params["data"]
\* holds what the callback takes (`if let Some(text) = ..as_str()`,
\* `if let Ok(tool) = from_value(..)`); `data` in the fields stands for a
\* payload that passes the test
on_update(msg) ==
    IF method_or_empty(msg) = "session/update" /\ "type" \in msg.params.fields
    THEN IF msg.params.type = "done" \/ "data" \in msg.params.fields
         THEN callback_of(msg.params.type)
         ELSE "none"
    ELSE "none"

\* try_wait outcomes for the terminal a request names
Statuses(mgr, tid) ==
    IF tid \in DOMAIN mgr.terminals THEN try_wait(mgr.terminals[tid]) ELSE {"running"}

Envs(msg) ==
    {Env(fs, spawned, status, stdout) :
        fs \in IF method_or_empty(msg) \in {"fs/read_text_file", "fs/write_text_file"}
               THEN BOOLEAN ELSE {TRUE},
        spawned \in IF method_or_empty(msg) = "terminal/create" THEN BOOLEAN ELSE {TRUE},
        status \in IF method_or_empty(msg) \in {"terminal/output", "terminal/wait_for_exit"}
                   THEN Statuses(term_mgr, msg.params.tid) ELSE {"running"},
        stdout \in IF method_or_empty(msg) = "terminal/create" THEN Texts ELSE {""}}

\* The ids a request took out of the terminal table, with the operation
\* that did it, added to the record of those taken out before
record_removed(before, after, op) ==
    LET gone == DOMAIN before.terminals \ DOMAIN after.terminals
    IN  [t \in DOMAIN removed \cup gone |-> IF t \in gone THEN op ELSE removed[t]]

\* A reader task that gives up at the first line it cannot parse
parse_failure_break ==
    /\ pc' = "stopped"
    /\ UNCHANGED <<message_rx, pending_requests, calls, term_mgr, removed>>

\* Err(e) => { eprintln!("Failed to parse message: {}", e); continue; }
parse_failure_continue ==
    UNCHANGED <<pc, message_rx, pending_requests, calls, term_mgr, removed>>

\* One turn of the reader task's loop
ClientHandleLine ==
    /\ role = "client"
    /\ loop_ready
    /\ Inputs < MaxInputs
    /\ Len(message_rx) < CHANNEL_CAPACITY
    /\ nread' = nread + 1
    /\ \E msg \in ClientPeerLines :
         /\ line' = msg
         /\ IF is_empty(msg)
            THEN /\ last' = Handled("blank", "none")
                 /\ UNCHANGED <<pc, message_rx, pending_requests, calls, term_mgr, removed>>
            ELSE IF ~from_str_ok(msg)
            THEN /\ last' = Handled("parse_error", "none")
                 /\ parse_failure_continue
            ELSE IF has_method(msg) /\ has_id(msg)
            THEN \E env \in Envs(msg) :
                   LET r == handle_agent_request(method_or_empty(msg), msg.params,
                                                 term_mgr, env)
                   IN  /\ term_mgr' = IF r.invoked = "kill" /\ r.ret.ok
                                      THEN kill_await(term_mgr, msg.params.tid)
                                      ELSE r.mgr
                       /\ removed' = record_removed(term_mgr, r.mgr, r.invoked)
                       /\ last' = Handled("request", r.invoked)
                       /\ IF r.waits
                          THEN /\ pc' = "wait_for_exit"
                               /\ message_rx' = message_rx
                          ELSE IF r.invoked = "kill" /\ r.ret.ok
                          THEN /\ pc' = "kill"
                               /\ message_rx' = message_rx
                          ELSE /\ pc' = pc
                               /\ reader_send(client_response(msg.id, r.ret))
                       /\ UNCHANGED <<pending_requests, calls>>
            ELSE IF has_method(msg)
            THEN /\ last' = Handled("notification", on_update(msg))
                 /\ UNCHANGED <<pc, message_rx, pending_requests, calls, term_mgr, removed>>
            ELSE IF has_id(msg)
            THEN /\ pending_requests' = remove(pending_requests, to_string(msg.id))
                 /\ calls' = resolve(msg)
                 /\ last' = Handled(IF to_string(msg.id) \in DOMAIN pending_requests
                                    THEN "response" ELSE "stray_response", "none")
                 /\ UNCHANGED <<pc, message_rx, term_mgr, removed>>
            ELSE /\ last' = Handled("ignored", "none")
                 /\ UNCHANGED <<pc, message_rx, pending_requests, calls, term_mgr, removed>>
    /\ UNCHANGED <<role, agent, pushed, update_rx, forwarder, writer, wire, next_id>>

\* terminal/kill: child.kill().await returns (its result is dropped with
\* .ok()), the output goes, the guard of the terminal table is released at
\* the end of the arm and the Response is sent
KillReturn ==
    /\ role = "client"
    /\ pc = "kill"
    /\ Len(message_rx) < CHANNEL_CAPACITY
    /\ term_mgr' = TerminalManager(term_mgr.terminals,
                                   remove(term_mgr.outputs, line.params.tid),
                                   term_mgr.next_id)
    /\ reader_send(client_response(line.id, Ok("object")))
    /\ pc' = "next_line"
    /\ UNCHANGED <<role, agent, removed, nread, line, last, pushed, update_rx, forwarder, writer,
                   wire, pending_requests, next_id, calls>>

\* Who holds the guard of `terminals` (Arc<Mutex<TerminalManager>>) while
\* the tasks stand at their awaits: the arms of handle_agent_request take it
\* and drop it within one step, except terminal/kill, which awaits
\* child.kill() with the guard alive
terminals_lock == IF pc = "kill" THEN "reader" ELSE "free"

\* Who holds the guard of `pending_requests` while the tasks stand at their
\* awaits: insert (send_request) and remove (Response branch) each sit in a
\* block without an await
pending_requests_lock == "free"

\* terminal/wait_for_exit, a later poll: the process has ended
WaitForExitReturn ==
    /\ role = "client"
    /\ pc = "wait_for_exit"
    /\ Len(message_rx) < CHANNEL_CAPACITY
    /\ \E status \in Statuses(term_mgr, line.params.tid) \ {"running"} :
         LET r == get_output(term_mgr, line.params.tid, status)
         IN  /\ term_mgr' = r.mgr
             /\ reader_send(client_response(line.id, wait_for_exit_result(r)))
    /\ pc' = "next_line"
    /\ UNCHANGED <<role, agent, removed, nread, line, last, pushed, update_rx, forwarder, writer,
                   wire, pending_requests, next_id, calls>>

\* A wait without a ceiling: the timer never fires
WaitForExitNoCeiling ==
    /\ role = "client"
    /\ pc = "wait_for_exit"
    /\ FALSE
    /\ UNCHANGED vars

\* terminal/wait_for_exit: the 300 s of timeout(...) elapse first
WaitForExitTimeout ==
    /\ role = "client"
    /\ pc = "wait_for_exit"
    /\ Len(message_rx) < CHANNEL_CAPACITY
    /\ reader_send(client_response(line.id, Err("Timeout")))
    /\ pc' = "next_line"
    /\ UNCHANGED <<role, agent, term_mgr, removed, nread, line, last, pushed, update_rx, forwarder,
                   writer, wire, pending_requests, next_id, calls>>

(* --------------------------- send_request ------------------------------ *)
CallMethods ==
    IF role = "server" THEN {"fs/read_text_file"} ELSE {"initialize"}

\* Who may enter send_request now: any task; on the server also the running
\* session_prompt handler, unless it stands inside a call already
Makers ==
    {"task"} \cup
      (IF role = "server" /\ pc = "session_prompt" /\ agent = "streaming" /\ ~handler_in_call
       THEN {"handler"} ELSE {})

\* The allocation without `*next_id += 1`
allocate_id_stuck == next_id' = next_id

\* let id = { let mut next_id = lock().await; let id = *next_id; *next_id += 1; id }
allocate_id == next_id' = next_id + 1

CallAllocate(c) ==
    /\ calls[c].pc = "start"
    /\ c > 1 => calls[c - 1].pc # "start"
    /\ Inputs < MaxInputs
    /\ \E m \in CallMethods, by \in Makers :
         calls' = [calls EXCEPT ![c].pc = "allocated", ![c].id = next_id,
                                ![c].method = m, ![c].by = by]
    /\ allocate_id
    /\ UNCHANGED <<role, agent, term_mgr, removed, nread, pc, line, last, pushed, update_rx,
                   forwarder, message_rx, writer, wire, pending_requests>>

CallRegister(c) ==
    /\ calls[c].pc = "allocated"
    /\ pending_requests' = insert(pending_requests, to_string(Num(calls[c].id)), c)
    /\ calls' = [calls EXCEPT ![c].pc = "registered"]
    /\ UNCHANGED <<role, agent, term_mgr, removed, nread, pc, line, last, pushed, update_rx,
                   forwarder, message_rx, writer, wire, next_id>>

\* A send_request that sends the Request before it registers the id
send_ready_unregistered(c) == calls[c].pc = "allocated"

\* send_request reaches its send only past the block that inserts the
\* sender into pending_requests
send_ready(c) == calls[c].pc = "registered"

\* The send of send_request and its map_err(ChannelError)?.
\* Client::send_request sends on self.message_tx, the outbound queue.
\* Server::send_request sends on the `response_tx` its caller passes: the
\* queue of Server::run is a local of run that no caller can reach, so the
\* frame goes to a channel of the caller's, open or closed.
CallSend(c) ==
    /\ send_ready(c)
    /\ Len(message_rx) < CHANNEL_CAPACITY
    /\ \E open \in IF role = "client" THEN {writer = "running"} ELSE BOOLEAN :
         IF open
         THEN /\ message_rx' =
                    IF role = "client"
                    THEN Append(message_rx,
                                request_to_string(Num(calls[c].id), calls[c].method))
                    ELSE message_rx
              /\ calls' = [calls EXCEPT ![c].pc = "awaiting"]
         ELSE /\ message_rx' = message_rx
              /\ calls' = [calls EXCEPT ![c].pc = "returned", ![c].rx = RxDropped,
                                        ![c].ret = Err("ChannelError")]
    /\ UNCHANGED <<role, agent, term_mgr, removed, nread, pc, line, last, pushed, update_rx,
                   forwarder, writer, wire, pending_requests, next_id>>

\* serde_json::from_value::<T>(result) of Client::send_request: T = Value
\* for session/cancel, the method's result struct otherwise
result_decodes(method, result) ==
    \/ method = "session/cancel"
    \/ result = "object"

\* A caller that looks at `result` first and at `error` only without one
call_result_prefers_result(method, resp) ==
    IF resp.result # None
    THEN Ok(resp.result)
    ELSE IF resp.error # NoneError THEN Err("InternalError") ELSE Ok("null")

\* What send_request returns for the response it received
call_result(method, resp) ==
    IF resp.error # NoneError
    THEN Err("InternalError")
    ELSE LET result == IF resp.result = None THEN "null" ELSE resp.result
         IN  IF role = "client" /\ ~result_decodes(method, result)
             THEN Err("InvalidParams")
             ELSE Ok(result)

\* rx.await completes with the response
CallReceive(c) ==
    /\ calls[c].pc = "awaiting"
    /\ calls[c].rx.state = "ready"
    /\ calls' = [calls EXCEPT ![c].pc = "returned",
                              ![c].ret = call_result(calls[c].method, calls[c].rx.resp)]
    /\ UNCHANGED <<role, agent, term_mgr, removed, nread, pc, line, last, pushed, update_rx,
                   forwarder, message_rx, writer, wire, pending_requests, next_id>>

\* timeout(Duration::from_secs(30), rx) elapses (client only): the receiver
\* is dropped, the table entry stays
CallTimeout(c) ==
    /\ role = "client"
    /\ calls[c].pc = "awaiting"
    /\ calls[c].rx.state = "empty"
    /\ Inputs < MaxInputs
    /\ calls' = [calls EXCEPT ![c].pc = "returned", ![c].rx = RxDropped,
                              ![c].ret = Err("Timeout")]
    /\ UNCHANGED <<role, agent, term_mgr, removed, nread, pc, line, last, pushed, update_rx,
                   forwarder, message_rx, writer, wire, pending_requests, next_id>>

Next ==
    \/ ServerHandleLine
    \/ ServerPromptStart
    \/ PromptPush
    \/ PromptDone
    \/ PromptReturn
    \/ ClientHandleLine
    \/ KillReturn
    \/ WaitForExitReturn
    \/ WaitForExitTimeout
    \/ ReaderEnd
    \/ MainReturn
    \/ Forward
    \/ Write
    \/ WriteFail
    \/ \E c \in Callers : CallAllocate(c)
    \/ \E c \in Callers : CallRegister(c)
    \/ \E c \in Callers : CallSend(c)
    \/ \E c \in Callers : CallReceive(c)
    \/ \E c \in Callers : CallTimeout(c)

Spec == Init /\ [][Next]_vars

\* The timer of timeout(Duration::from_secs(300), ..) fires if the polling
\* loop is still running when its time has come
LiveSpec == Spec /\ WF_vars(WaitForExitTimeout)

(* ------------------------------ claims --------------------------------- *)
\* The key under which caller c registers, and the callers that hold an id
Key(c) == to_string(Num(calls[c].id))
Started == {c \in Callers : calls[c].pc # "start"}

\* The line taken in this step is classified as a Response by both loops
ResponseRead ==
    /\ nread' = nread + 1
    /\ line'.form = "object"
    /\ has_id(line')
    /\ ~has_method(line')

\* C1: whatever the order in which Responses arrive, a pending call is
\* completed only by the Response frame that carries the call's own id, with
\* that frame's result/error, and the frame completes no other call; a
\* Response whose id has a live entry completes that call; the caller
\* returns the error of its own Response as an error and its result otherwise.
C1_ResponseCompletesOwnCall ==
    [][/\ \A c \in Callers :
            (calls[c].rx.state = "empty" /\ calls'[c].rx.state = "ready")
              => /\ nread' = nread + 1
                 /\ to_string(line'.id) = Key(c)
                 /\ calls'[c].rx.resp = response_from_msg(line')
                 /\ Key(c) \notin DOMAIN pending_requests'
                 /\ \A d \in Callers \ {c} : calls'[d].rx = calls[d].rx
       /\ \A c \in Started :
            (ResponseRead /\ to_string(line'.id) = Key(c)
               /\ Key(c) \in DOMAIN pending_requests /\ calls[c].rx.state = "empty")
              => calls'[c].rx = RxReady(response_from_msg(line'))
       /\ \A c \in Callers :
            (calls[c].rx.state = "ready" /\ calls[c].pc = "awaiting"
               /\ calls'[c].pc = "returned")
              => /\ calls[c].rx.resp.error # NoneError => calls'[c].ret = Err("InternalError")
                 /\ calls'[c].ret.ok => /\ calls[c].rx.resp.error = NoneError
                                         /\ calls[c].rx.resp.result \in {None, calls'[c].ret.val}
      ]_vars

\* Two calls are outstanding and the Response of the later one came first
C1_Witness ==
    /\ calls[1].pc = "awaiting"
    /\ calls[1].rx.state = "empty"
    /\ calls[2].rx.state = "ready"

\* C8: a Response frame whose id has no entry in the correlation table
\* changes nothing: the table and every caller stay as they are, nothing is
\* enqueued or written, and the loop goes on to the next line.
C8_StrayResponseIsNoOp ==
    [][(ResponseRead /\ to_string(line'.id) \notin DOMAIN pending_requests)
         => /\ UNCHANGED <<pending_requests, calls, message_rx, update_rx, wire,
                           writer, forwarder, term_mgr>>
            /\ pc' = "next_line"]_vars

\* A stray Response was read while another call was pending
C8_Witness ==
    /\ last.class = "stray_response"
    /\ pc = "next_line"
    /\ \E c \in Callers : calls[c].pc = "awaiting" /\ Key(c) \in DOMAIN pending_requests

\* C9: the ids send_request has allocated are exactly 1..next_id-1, one per
\* call, no two calls share one, also with calls interleaved; an id about to
\* be registered has no entry in the pending table, and every entry of the
\* table sits under the id of the one call that owns it.
C9_FreshRequestIds ==
    /\ {calls[c].id : c \in Started} = 1..(next_id - 1)
    /\ \A c, d \in Started : c # d => calls[c].id # calls[d].id
    /\ \A c \in Callers : calls[c].pc = "allocated" => Key(c) \notin DOMAIN pending_requests
    /\ \A k \in DOMAIN pending_requests : Key(pending_requests[k]) = k

\* Two calls interleave: the second one registered before the first
C9_Witness ==
    /\ calls[1].pc = "allocated"
    /\ calls[2].pc = "registered"
    /\ DOMAIN pending_requests = {"2"}

\* The frames of a queue that are session/update notifications, and the
\* frames that are Responses
IsUpdate(f) == f.method = "session/update"
IsResponse(f) == f.form = "object" /\ f.method = NoMethod /\ f.id # Absent
Updates(frames) == SelectSeq(frames, IsUpdate)
Responses(frames) == SelectSeq(frames, IsResponse)

\* The line taken in this step has `method` and `id`, and its handling
\* returns within the step
RequestHandled ==
    /\ nread' = nread + 1
    /\ line'.form = "object"
    /\ has_method(line')
    /\ has_id(line')
    /\ pc' = "next_line"

\* The Response frame this step puts on the outbound queue, if it puts one
Enqueued(f) == message_rx' = Append(message_rx, f)

\* The error Response of `id` with the code `c` of the error kind `e`
ErrorFrame(id, c, e) == Frame("object", id, NoMethod, NoParams, NoKey, JsonRpcError(c, e))

\* C2: once the Response to a session/prompt Request is on the transport,
\* every update its handler pushed before returning is on the transport
\* ahead of it: none is still in the sink or in the outbound queue, none
\* follows the Response.
C2_UpdatesBeforeResponse ==
    (/\ role = "server"
     /\ pc = "next_line"
     /\ starts_prompt(line)
     /\ has_id(line)
     /\ writer = "running"
     /\ forwarder = "running"
     /\ Responses(message_rx) = <<>>
     /\ Responses(wire) # <<>>)
      => LET R == CHOOSE i \in DOMAIN wire :
                    /\ IsResponse(wire[i])
                    /\ \A j \in DOMAIN wire : IsResponse(wire[j]) => j <= i
         IN  /\ \A j \in DOMAIN update_rx : update_rx[j].data.inv # nread
             /\ \A j \in DOMAIN message_rx :
                    IsUpdate(message_rx[j]) => message_rx[j].params.data.inv # nread
             /\ \A j \in DOMAIN wire :
                    (IsUpdate(wire[j]) /\ wire[j].params.data.inv = nread) => j < R

\* C3: the session/update notifications on the transport, then those in
\* the outbound queue, then the updates in the sink, carry strictly
\* increasing push numbers: written in push order, none twice.
C3_UpdatesInPushOrder ==
    LET written == Updates(wire \o message_rx)
        ks == [i \in DOMAIN written |-> written[i].params.data.k]
              \o [i \in DOMAIN update_rx |-> update_rx[i].data.k]
    IN  \A i, j \in DOMAIN ks : i < j => ks[i] < ks[j]

\* Two updates of one handler are on the transport
C3_Witness ==
    /\ Len(Updates(wire)) = 2
    /\ wire[1].params.data.k = 1
    /\ wire[2].params.data.k = 2

\* C4: a step that completes the handling of a frame with `method` and `id`
\* enqueues exactly one Response, with the same id and exactly one of
\* result / error; and a Response with an id is enqueued only by the step
\* that completes the handling of the Request with that id.
C4_OneResponsePerRequest ==
    [][/\ (RequestHandled /\ writer = "running")
            => /\ Len(message_rx') = Len(message_rx) + 1
               /\ LET f == message_rx'[Len(message_rx')]
                  IN  /\ Enqueued(f)
                      /\ IsResponse(f)
                      /\ f.id = line'.id
                      /\ (f.result # NoKey) # (f.error # NoError)
       /\ (/\ Len(message_rx') = Len(message_rx) + 1
           /\ IsResponse(message_rx'[Len(message_rx')])
           /\ message_rx'[Len(message_rx')].id # Null)
            => /\ message_rx'[Len(message_rx')].id = line'.id
               /\ has_method(line')
               /\ pc' = "next_line"
               /\ RequestHandled \/ pc \in {"session_prompt", "wait_for_exit"}
      ]_vars

\* A well-formed Request: a registered method of the server, an id, params
\* with every required field
WellFormedRequest(msg) ==
    /\ msg.form = "object"
    /\ has_id(msg)
    /\ msg.method \in ServerMethods
    /\ Required(msg.method) \subseteq msg.params.fields

\* C5: the server answers a line that is not JSON with the error -32700
\* under a null id and stays in its loop; the well-formed Request that comes
\* right after it reaches its agent method and is answered under its own id
\* with a result (or with the agent's own error).
C5_ParseErrorAnswered ==
    [][/\ (role = "server" /\ nread' = nread + 1 /\ line'.form = "malformed"
             /\ writer = "running")
            => /\ Enqueued(ErrorFrame(Null, -32700, "ParseError"))
               /\ pc' = "next_line"
               /\ UNCHANGED <<pending_requests, calls, update_rx, writer, forwarder>>
       /\ (role = "server" /\ line.form = "malformed" /\ pc = "next_line"
             /\ nread' = nread + 1 /\ WellFormedRequest(line')
             /\ writer = "running")
            => \/ pc' = "session_prompt" /\ line'.method = "session/prompt"
               \/ /\ pc' = "next_line"
                  /\ last' = Handled("request", line'.method)
                  /\ \E f \in {message_rx'[Len(message_rx')]} :
                       /\ Enqueued(f)
                       /\ f.id = line'.id
                       /\ f.result # NoKey \/ f.error.code = INVALID_STATE
      ]_vars

\* The parse error and then the result of the next Request are on the
\* transport
C5_Witness ==
    /\ role = "server"
    /\ nread = 2
    /\ WellFormedRequest(line)
    /\ Len(wire) = 2
    /\ wire[1] = ErrorFrame(Null, -32700, "ParseError")
    /\ wire[2].id = line.id
    /\ wire[2].result # NoKey

\* The methods registered on this side
Registered == IF role = "server" THEN ServerMethods ELSE ClientMethods

\* C6: a Request whose method name is not registered on the receiving side
\* is answered with the error -32601 under the Request's id, and nothing
\* else happens: no agent method and no file or terminal operation is
\* called, no update is produced, the correlation table, the callers and
\* the terminal tables stay as they are.
C6_UnknownMethod ==
    [][(/\ nread' = nread + 1
        /\ line'.form = "object"
        /\ has_id(line')
        /\ method_is_str(line')
        /\ line'.method \notin Registered)
         => /\ last'.invoked = "none"
            /\ UNCHANGED <<pending_requests, calls, term_mgr, update_rx, pushed, wire>>
            /\ IF writer = "running"
               THEN /\ Enqueued(ErrorFrame(line'.id, -32601, "MethodNotFound"))
                    /\ pc' = "next_line"
               ELSE message_rx' = message_rx
      ]_vars

\* The client answered an unknown method while it held a terminal
C6_Witness ==
    /\ role = "client"
    /\ nread = 2
    /\ has_id(line)
    /\ line.method = "unknown/method"
    /\ DOMAIN term_mgr.terminals = {1}
    /\ Len(wire) = 2
    /\ wire[2] = ErrorFrame(line.id, -32601, "MethodNotFound")

\* The fields the handler of the line's method expects
Shape(msg) == IF role = "server" THEN Required(msg.method) ELSE ClientRequired(msg.method)

\* C7: a Request to a registered method whose params lack a field the
\* handler expects is answered with the error -32602 under its id, and the
\* agent method, the file operation or the terminal operation is not called.
C7_InvalidParams ==
    [][(/\ nread' = nread + 1
        /\ line'.form = "object"
        /\ has_id(line')
        /\ method_is_str(line')
        /\ line'.method \in Registered
        /\ ~(Shape(line') \subseteq line'.params.fields))
         => /\ last'.invoked = "none"
            /\ pc' \notin {"session_prompt", "wait_for_exit"}
            /\ UNCHANGED <<term_mgr, update_rx, pushed, pending_requests, calls>>
            /\ IF writer = "running"
               THEN /\ Enqueued(ErrorFrame(line'.id, -32602, "InvalidParams"))
                    /\ pc' = "next_line"
               ELSE message_rx' = message_rx
      ]_vars

\* initialize with one required field missing was answered
C7_Witness ==
    /\ role = "server"
    /\ nread = 1
    /\ has_id(line)
    /\ line.method = "initialize"
    /\ line.params.fields # {}
    /\ ~(Required("initialize") \subseteq line.params.fields)
    /\ wire = <<ErrorFrame(line.id, -32602, "InvalidParams")>>

\* A long handler is running
HandlerRunning == pc \in {"session_prompt", "wait_for_exit", "kill"}

\* A call is outstanding: registered, sent, not answered
Outstanding(c) ==
    /\ calls[c].pc = "awaiting"
    /\ calls[c].rx.state = "empty"
    /\ Key(c) \in DOMAIN pending_requests

\* C10, as stated: while a long handler runs and another call is
\* outstanding, the loop can take the next line, so that a Response to that
\* call is resolved without waiting for the handler.
C10_ResponseTakenDuringHandler ==
    (/\ HandlerRunning
     /\ Inputs < MaxInputs
     /\ \E c \in Callers : Outstanding(c))
      => ENABLED (ServerHandleLine \/ ClientHandleLine)

\* C10, amended: while a long handler runs the loop takes no line: no call
\* is completed and no entry leaves the correlation table before the
\* handler has returned.
C10_HandlerDelaysResponses ==
    [][HandlerRunning
         => /\ nread' = nread
            /\ line' = line
            /\ \A c \in Callers : calls'[c].rx.state = "ready" => calls[c].rx.state = "ready"
            /\ DOMAIN pending_requests \subseteq DOMAIN pending_requests'
      ]_vars

\* terminal/wait_for_exit is polling a running process while a call of the
\* client is outstanding and its Request is on the transport
C10_Witness ==
    /\ pc = "wait_for_exit"
    /\ Outstanding(1)
    /\ \E i \in DOMAIN wire : wire[i] = request_to_string(Num(calls[1].id), calls[1].method)

\* The session_prompt handler awaits a call of its own that is outstanding
HandlerAwaits(c) == calls[c].by = "handler" /\ Outstanding(c)

\* C11: while the handler of an inbound Request awaits the Response to a
\* Request it issued itself through Server::send_request, the main loop can
\* take the next line, so that the peer's matching Response reaches the
\* correlation table and the handler's await completes.
C11_HandlerCallResolvable ==
    (/\ role = "server"
     /\ pc = "session_prompt"
     /\ Inputs < MaxInputs
     /\ \E c \in Callers : HandlerAwaits(c))
      => ENABLED ServerHandleLine

\* C12: the step that closes the connection (the client's reader loop ends,
\* or its writer stops after a failed write) fails every call that is still
\* pending in the correlation table: none is left with a receiver that
\* still waits.
C12_PendingFailedOnClose ==
    [][(/\ role = "client"
        /\ \/ pc # "stopped" /\ pc' = "stopped"
           \/ writer = "running" /\ writer' = "stopped")
         => \A c \in Callers : Outstanding(c) => calls'[c].rx.state # "empty"
      ]_vars

\* Call c has ended with a Timeout and its entry is still in the table
Abandoned(c) ==
    /\ calls[c].pc = "returned"
    /\ calls[c].ret = Err("Timeout")
    /\ Key(c) \in DOMAIN pending_requests

TerminalRequest(methods, t) ==
    /\ role = "client"
    /\ nread' = nread + 1
    /\ line'.form = "object"
    /\ has_id(line')
    /\ line'.method \in methods
    /\ "terminal_id" \in line'.params.fields
    /\ line'.params.tid = t

\* The frames that left the reader task so far, in the order of their sends
Sent == wire \o message_rx

\* C14: once terminal/kill has succeeded on a terminal, a later
\* terminal/output, terminal/wait_for_exit or terminal/kill that names it is
\* answered with the error -32001 at once (no polling), the terminal tables
\* stay as they are, and the id is in neither table.
C14_KilledTerminalNotFound ==
    [][\A t \in DOMAIN removed :
          (/\ removed[t] = "kill"
           /\ TerminalRequest({"terminal/output", "terminal/wait_for_exit",
                               "terminal/kill"}, t))
            => /\ t \notin DOMAIN term_mgr.terminals \cup DOMAIN term_mgr.outputs
               /\ term_mgr' = term_mgr
               /\ pc' = "next_line"
               /\ IF writer = "running"
                  THEN Enqueued(ErrorFrame(line'.id, -32001, "ResourceNotFound"))
                  ELSE message_rx' = message_rx
      ]_vars

\* Terminal 1 was created and killed, and a wait for its exit was answered
\* with Resource Not Found
C14_Witness ==
    /\ DOMAIN removed = {1}
    /\ removed[1] = "kill"
    /\ line.method = "terminal/wait_for_exit"
    /\ line.params.tid = 1
    /\ Len(Sent) = 3
    /\ Sent[2].result # NoKey
    /\ Sent[3] = ErrorFrame(line.id, -32001, "ResourceNotFound")

\* C15: terminal/release that names an id which is not in the terminal table
\* (never created, or taken out by an earlier kill or release) is answered
\* with the error -32001 and leaves the terminal tables as they are.
C15_ReleaseUnknownNotFound ==
    [][\A t \in TerminalIds :
          (/\ t \notin DOMAIN term_mgr.terminals
           /\ TerminalRequest({"terminal/release"}, t)
           /\ writer = "running")
            => /\ term_mgr' = term_mgr
               /\ Enqueued(ErrorFrame(line'.id, -32001, "ResourceNotFound"))
      ]_vars

\* The Response with `result` to the Request this step has handled
ResultFrame(id, result) == Frame("object", id, NoMethod, NoParams, result, NoError)

C17_OutputIsWhatWasWritten ==
    [][\A t \in DOMAIN term_mgr.terminals :
          (/\ writer = "running"
           /\ \/ TerminalRequest({"terminal/output", "terminal/wait_for_exit"}, t)
              \/ pc = "wait_for_exit" /\ line.params.tid = t /\ pc' = "next_line"
           /\ term_mgr'.terminals[t].status = "exit0")
            => \/ Enqueued(ResultFrame(line'.id,
                     output_json(term_mgr.terminals[t].stdout, TRUE, "0")))
               \/ Enqueued(ResultFrame(line'.id,
                     wait_for_exit_json(term_mgr.terminals[t].stdout, "0")))
      ]_vars

CreatedResult == [n \in 1..9 |-> created_json(format_id(n))]
CreatedResults == {CreatedResult[n] : n \in 1..9}
Created == SelectSeq(Sent, LAMBDA f : f.result \in CreatedResults)

\* C19: every id in the terminal table was handed out by an earlier create
\* (it is below next_id), no two Responses of create carry the same id, the
\* id a create has returned is in the table until kill or release takes it
\* out, an id taken out is not in the table again, and an id is in the
\* output table exactly when it is in the terminal table (as seen by
\* whoever takes the guard of the tables).
C19_TerminalIdsFresh ==
    /\ \A t \in DOMAIN term_mgr.terminals \cup DOMAIN removed : t < term_mgr.next_id
    /\ \A i, j \in DOMAIN Created : i # j => Created[i].result # Created[j].result
    /\ \A i \in DOMAIN Created :
         \E n \in 1..(term_mgr.next_id - 1) :
            /\ Created[i].result = CreatedResult[n]
            /\ n \in DOMAIN term_mgr.terminals \cup DOMAIN removed
    /\ \A t \in DOMAIN removed : t \notin DOMAIN term_mgr.terminals
    /\ terminals_lock = "free" => DOMAIN term_mgr.outputs = DOMAIN term_mgr.terminals

\* Terminal 1 was created and killed, then a second create handed out id 2
C19_Witness ==
    /\ DOMAIN removed = {1}
    /\ DOMAIN term_mgr.terminals = {2}
    /\ Len(Created) = 2
    /\ Created[2].result = CreatedResult[2]

\* C20: the handling of a frame with `method` and without `id` puts no frame
\* on the outbound queue, whatever its outcome: a handler that succeeds or
\* fails, an unknown method, params that do not decode; and the return of a
\* session/prompt handler that was started by a Notification enqueues no
\* Response either.  The loop goes on.
C20_NotificationNeverAnswered ==
    [][/\ (nread' = nread + 1 /\ line'.form = "object"
             /\ has_method(line') /\ ~has_id(line'))
            => /\ UNCHANGED <<message_rx, wire, writer>>
               /\ pc' \in {"next_line", "session_prompt"}
       /\ (pc = "session_prompt" /\ ~has_id(line) /\ pc' # "session_prompt")
            => /\ UNCHANGED <<message_rx, wire, writer>>
               /\ pc' = "next_line"
      ]_vars

\* The server answered a Request, then handled a Notification with params
\* that do not decode: one frame, the Response to the Request, has left
C20_Witness ==
    /\ role = "server"
    /\ nread = 2
    /\ last = Handled("notification", "none")
    /\ line.method = "initialize"
    /\ ~Decodes(line.method, line.params)
    /\ Len(Sent) = 1
    /\ wire = Sent
    /\ pc = "next_line"

\* The class both reader loops are to give the object they take in this
\* step, going by the keys it has
ObjectRead(with_method, with_id) ==
    /\ nread' = nread + 1
    /\ line'.form = "object"
    /\ has_method(line') = with_method
    /\ has_id(line') = with_id

\* C21: a decoded frame is classified by the presence of `method` and `id`
\* alone.  With both it is handled as a Request (never as a Response: the
\* correlation table and the callers stay as they are); with `method` only
\* as a Notification (nothing is answered, no call is touched); with `id`
\* only as a Response.
C21_ClassifiedByPresence ==
    [][/\ ObjectRead(TRUE, TRUE)
            => /\ UNCHANGED <<pending_requests, calls>>
               /\ last'.class = "request" \/ pc' = "session_prompt"
       /\ ObjectRead(TRUE, FALSE)
            => /\ UNCHANGED <<pending_requests, calls, message_rx>>
               /\ pc' \in {"next_line", "session_prompt"}
       /\ ObjectRead(FALSE, TRUE)
            => last'.class \in {"response", "stray_response"}
      ]_vars

\* The code the protocol assigns to each error kind
CodeOfKind ==
    [e \in AcpErrorKinds |->
        CASE e = "ParseError" -> -32700
          [] e = "InvalidRequest" -> -32600
          [] e = "MethodNotFound" -> -32601
          [] e = "InvalidParams" -> -32602
          [] e = "InternalError" -> -32603
          [] e = "ResourceNotFound" -> -32001
          [] e = "PermissionDenied" -> -32002
          [] e = "InvalidState" -> -32003
          [] e = "CapabilityNotSupported" -> -32004
          [] e \in {"IoError", "ChannelError", "ConnectionClosed", "Timeout"} -> -32603
          [] e = "JsonError" -> -32700]

\* The error Responses among the frames that have left the loops
ErrorResponses == SelectSeq(Sent, LAMBDA f : IsResponse(f) /\ f.error # NoError)

\* C22: AcpError::code gives every error kind the code of the protocol's
\* table, and every error Response that either loop sends carries the code
\* of the kind of the error its handler returned, with no result beside it.
C22_ErrorCodeOfKind ==
    /\ \A e \in AcpErrorKinds : code(e) = CodeOfKind[e]
    /\ \A i \in DOMAIN ErrorResponses :
         LET f == ErrorResponses[i]
         IN  /\ f.error.message \in AcpErrorKinds
             /\ f.error.code = CodeOfKind[f.error.message]
             /\ f.result = NoKey

\* The client has answered one Request with the code of a named kind
\* (-32002, permission denied) and one with the code of an I/O error that
\* maps to the internal error
C22_Witness ==
    /\ role = "client"
    /\ Len(ErrorResponses) = 2
    /\ ErrorResponses[1].error = JsonRpcError(-32002, "PermissionDenied")
    /\ ErrorResponses[2].error = JsonRpcError(-32603, "IoError")

\* C23: the transport grows only by the frame at the head of the outbound
\* queue, whole, and that frame leaves the queue in the same step; the queue
\* grows only at its tail, by one whole frame per send, whichever task sends
\* (reader loop, update forwarder, send_request); it shrinks otherwise only
\* when the writer has stopped and drops what it holds.  So the frames on
\* the transport are a prefix of the frames in the order of their sends.
C23_WrittenInQueueOrder ==
    [][/\ wire' # wire
            => /\ writer = "running"
               /\ message_rx # <<>>
               /\ Head(message_rx).form = "object"
               /\ wire' = Append(wire, Head(message_rx))
               /\ message_rx' = Tail(message_rx)
       /\ (wire' = wire /\ message_rx' # message_rx)
            => \/ /\ Len(message_rx') = Len(message_rx) + 1
                  /\ SubSeq(message_rx', 1, Len(message_rx)) = message_rx
                  /\ writer = "running"
               \/ /\ writer' = "stopped"
                  /\ message_rx' = <<>>
      ]_vars

\* The client's writer has written one frame while a Request of
\* send_request and a Response of the reader task wait in the queue
C23_Witness ==
    /\ role = "client"
    /\ Len(wire) = 1
    /\ Len(message_rx) = 2
    /\ \E i, j \in DOMAIN message_rx :
         /\ message_rx[i].method = "initialize"
         /\ IsResponse(message_rx[j])

\* C24: the loop takes a line only when the handling of the line before has
\* returned, so no two handlers run at once; a handler that stays (a
\* session/prompt, a polling wait_for_exit) enqueues no Response when it
\* starts and, for a Request, the Response of its own line when it returns;
\* and a Response is enqueued only by the step that ends the handling of the
\* line taken last, under that line's id (null for a line that is not JSON).
\* Responses therefore enter the queue in the order of their Requests.
C24_OneFrameAtATime ==
    [][/\ nread' # nread => (pc = "next_line" /\ nread' = nread + 1)
       /\ (nread' = nread + 1 /\ pc' \in {"session_prompt", "wait_for_exit", "kill"})
            => message_rx' = message_rx
       /\ (HandlerRunning /\ pc' # pc)
            => /\ pc' \in {"next_line", "stopped"}
               /\ UNCHANGED <<nread, line>>
               /\ (has_id(line) /\ writer = "running")
                    => \E f \in {message_rx'[Len(message_rx')]} :
                         Enqueued(f) /\ IsResponse(f) /\ f.id = line.id
       /\ (nread' = nread + 1 /\ line'.form = "object" /\ method_is_str(line')
             /\ has_id(line') /\ pc' = "next_line" /\ writer = "running")
            => \E f \in {message_rx'[Len(message_rx')]} :
                 Enqueued(f) /\ IsResponse(f) /\ f.id = line'.id
       /\ (Len(message_rx') = Len(message_rx) + 1
             /\ IsResponse(message_rx'[Len(message_rx')]))
            => /\ nread' = nread + 1 \/ HandlerRunning
               /\ pc' = "next_line"
               /\ \/ message_rx'[Len(message_rx')].id = line'.id
                  \/ line'.form = "malformed"
      ]_vars

\* The server ran a session/prompt handler that pushed an update, answered
\* its Request, and then answered the Request read after it: the two
\* Responses left in the order of the Requests
C24_Witness ==
    /\ role = "server"
    /\ nread = 2
    /\ pushed = 1
    /\ pc = "next_line"
    /\ Responses(Sent) = <<ResultFrame(Num(1), "object"),
                           ErrorFrame(Num(1), -32601, "MethodNotFound")>>

\* C25: wherever the tasks stand suspended (reading a line, in a handler,
\* sleeping between two polls, awaiting a child, sending on a queue,
\* awaiting a Response) the guard of the correlation table and the guard of
\* the terminal table are free.
C25_NoLockAcrossAwait ==
    /\ pending_requests_lock = "free"
    /\ terminals_lock = "free"

\* C26: a call of Server::send_request that awaits its Response runs under
\* the 30 s ceiling: as long as no Response has come, the timer can fire and
\* end the call with Timeout.
C26_ServerCallTimesOut ==
    \A c \in Callers :
        (/\ role = "server"
         /\ calls[c].pc = "awaiting"
         /\ calls[c].rx.state = "empty"
         /\ Inputs < MaxInputs)
          => ENABLED CallTimeout(c)

\* C27: an empty line is skipped by both loops: nothing is enqueued or
\* written, no handler and no callback is called, no update is produced, the
\* correlation table, the callers and the terminal tables stay as they are,
\* and the loop is ready for the next line; a Request with a string method
\* that is read right after it is handled as any Request: its handler
\* starts, or its Response is enqueued under its id.
C27_BlankLineSkipped ==
    [][/\ (nread' = nread + 1 /\ line'.form = "blank")
            => /\ UNCHANGED <<message_rx, wire, writer, update_rx, pushed, forwarder,
                              pending_requests, next_id, calls, term_mgr, removed>>
               /\ last' = Handled("blank", "none")
               /\ pc' = "next_line"
       /\ (line.form = "blank" /\ pc = "next_line" /\ nread' = nread + 1
             /\ line'.form = "object" /\ method_is_str(line') /\ has_id(line')
             /\ writer = "running")
            => \/ pc' \in {"session_prompt", "wait_for_exit", "kill"}
               \/ /\ pc' = "next_line"
                  /\ \E f \in {message_rx'[Len(message_rx')]} :
                       Enqueued(f) /\ IsResponse(f) /\ f.id = line'.id
      ]_vars

\* The client read an empty line while a call of its own was outstanding:
\* the call still waits, its entry is in the table, nothing was answered
C27_Witness ==
    /\ role = "client"
    /\ last = Handled("blank", "none")
    /\ line = BlankLine
    /\ Outstanding(1)
    /\ Len(Sent) = 1
    /\ pc = "next_line"

\* The `error` of a frame is a JSON-RPC error object (code and message)
HasErrorObject(msg) == msg.error \notin {NoError, BadError}

\* C28: a Response frame with the id of an outstanding call completes that
\* call whatever it carries: `result`, an error object, or both.  The call
\* then returns an error whenever an error object was there, the result
\* beside it being ignored, and the result when only `result` was there (on
\* the client, provided it decodes into the result type of the method).  An
\* `error` value that is no error object counts as no error.
C28_ErrorPreferredOverResult ==
    [][/\ \A c \in Started :
            (ResponseRead /\ Outstanding(c) /\ to_string(line'.id) = Key(c))
              => /\ calls'[c].rx.state = "ready"
                 /\ calls'[c].rx.resp.result
                        = (IF line'.result = NoKey THEN None ELSE line'.result)
                 /\ calls'[c].rx.resp.error
                        = (IF HasErrorObject(line') THEN line'.error ELSE NoneError)
       /\ \A c \in Callers :
            (calls[c].pc = "awaiting" /\ calls[c].rx.state = "ready"
               /\ calls'[c].pc = "returned")
              => LET resp == calls[c].rx.resp
                 IN  /\ resp.error # NoneError => calls'[c].ret = Err("InternalError")
                     /\ (resp.error = NoneError /\ resp.result # None)
                          => \/ calls'[c].ret = Ok(resp.result)
                             \/ /\ role = "client"
                                /\ ~result_decodes(calls[c].method, resp.result)
                                /\ calls'[c].ret = Err("InvalidParams")
      ]_vars

\* A call has returned the error of a Response that carried a result beside
\* its error
C28_Witness ==
    /\ calls[1].pc = "returned"
    /\ calls[1].rx.state = "ready"
    /\ calls[1].rx.resp.result = "object"
    /\ calls[1].rx.resp.error = JsonRpcError(INTERNAL_ERROR, "peer error")
    /\ calls[1].ret = Err("InternalError")

\* The values a loop may have encoded into a frame
ResponseValues ==
    {JsonRpcResponse(id, r, e) :
        id \in {Null, Num(1), Str(1)},
        r \in {None, "null", "object"} \cup {created_json(format_id(n)) : n \in 1..2},
        e \in {NoneError} \cup {JsonRpcError(code(k), k) : k \in AcpErrorKinds}}
UpdateValues ==
    {SessionUpdate(sid, type, [inv |-> i, k |-> k]) :
        sid \in Sessions, type \in UpdateTypes, i \in 0..MaxInputs, k \in 0..MaxUpdates}
RequestValues ==
    {JsonRpcRequest(Num(n), m) : n \in 1..MaxInputs, m \in {"initialize", "fs/read_text_file"}}

\* C29: every frame the server has sent is the encoding of a frame value
\* that the decoder of its type gives back unchanged (a Response, with its
\* result or its error and nothing else; a session/update notification of
\* any kind), and so is every Request the client has sent.
C29_RoundTrip ==
    \A i \in DOMAIN Sent :
        LET f == Sent[i]
        IN  /\ (role = "server" /\ IsResponse(f))
                 => \E v \in ResponseValues :
                      response_to_string(v) = f /\ from_str_response(f) = v
            /\ IsUpdate(f)
                 => \E u \in UpdateValues :
                      notification_to_string(u) = f /\ from_value_update(f.params) = u
            /\ (role = "client" /\ f.method = "initialize")
                 => \E v \in RequestValues :
                      request_to_string(v.id, v.method) = f /\ from_str_request(f) = v

\* C30: Server::run returns Ok(()) only when its loop has ended on the end
\* of the stream (or on the closed outbound queue); when a read has failed,
\* what it returns is an error.
C30_ReadErrorReported ==
    (role = "server" /\ pc = "stopped" /\ line = ReadError) => ~run_result.ok

\* The line taken in this step is a session/cancel
CancelRead ==
    /\ nread' = nread + 1
    /\ line'.form = "object"
    /\ method_is_str(line')
    /\ line'.method = "session/cancel"

\* C31: session/cancel aborts nothing.  While a session/prompt handler runs
\* the loop takes no line, so no session/cancel is dispatched; the handler
\* ends only by returning, and the step of its return enqueues the Response
\* of the prompt (for a Request).  A session/cancel is taken only when no
\* prompt is in flight, and its Response goes to the tail of the queue,
\* behind the Response of every prompt that ran before it.
C31_CancelIsAdvisory ==
    [][/\ pc = "session_prompt"
            => /\ UNCHANGED <<nread, line>>
               /\ last'.invoked = "session/cancel" => last' = last
               /\ pc' # pc
                    => /\ pc' \in {"next_line", "stopped"}
                       /\ last' = Handled(IF has_id(line) THEN "request" ELSE "notification",
                                          "session/prompt")
                       /\ (has_id(line) /\ writer = "running")
                            => \E f \in {message_rx'[Len(message_rx')]} :
                                 /\ Enqueued(f)
                                 /\ f \in {ResultFrame(line.id, "object"),
                                           ErrorFrame(line.id, INVALID_STATE, "InvalidState")}
       /\ CancelRead
            => /\ pc = "next_line"
               /\ pc' \in {"next_line", "stopped"}
               /\ (has_id(line') /\ writer = "running")
                    => \E f \in {message_rx'[Len(message_rx')]} :
                         /\ Enqueued(f)
                         /\ IsResponse(f)
                         /\ f.id = line'.id
      ]_vars

\* A session/prompt Request whose handler pushed an update was answered,
\* then a session/cancel Request was dispatched to the agent and answered:
\* the two Responses left in that order
C31_Witness ==
    /\ role = "server"
    /\ nread = 2
    /\ pushed = 1
    /\ line.method = "session/cancel"
    /\ last = Handled("request", "session/cancel")
    /\ Responses(Sent) = <<ResultFrame(Num(1), "object"), ResultFrame(Num(1), "null")>>

\* The line taken in this step is a Request of the agent that names no
\* method the client knows
UnknownRequestRead ==
    /\ nread' = nread + 1
    /\ line'.form = "object"
    /\ has_method(line')
    /\ has_id(line')
    /\ method_or_empty(line') \notin ClientMethods

\* The line handled last was one that is not JSON, or a Request with an
\* unknown method
AfterBadLine ==
    \/ last = Handled("parse_error", "none")
    \/ /\ last = Handled("request", "none")
       /\ has_id(line)
       /\ method_or_empty(line) \notin ClientMethods

\* C32: the client's reader task drops a line that is not JSON (nothing is
\* enqueued, no table changes) and answers a Request with an unknown method
\* with the error -32601 under the Request's id; after either it stands at
\* next_line again, and the frame it takes next is processed as ever: a
\* Response completes its pending call and leaves the table, a notification
\* reaches its callback, a Request is answered under its id or its handler
\* starts.
C32_ClientSurvivesBadFrame ==
    [][/\ role = "client"
            => /\ (nread' = nread + 1 /\ line'.form = "malformed")
                    => /\ UNCHANGED <<message_rx, wire, writer, pending_requests, next_id,
                                      calls, term_mgr, removed>>
                       /\ last' = Handled("parse_error", "none")
                       /\ pc' = "next_line"
               /\ UnknownRequestRead
                    => /\ UNCHANGED <<pending_requests, next_id, calls, term_mgr, removed>>
                       /\ pc' = "next_line"
                       /\ writer = "running"
                            => Enqueued(ErrorFrame(line'.id, -32601, "MethodNotFound"))
               /\ (AfterBadLine /\ nread' = nread + 1 /\ line'.form = "object")
                    => /\ (~has_method(line') /\ has_id(line')
                             /\ to_string(line'.id) \in DOMAIN pending_requests)
                            => /\ to_string(line'.id) \notin DOMAIN pending_requests'
                               /\ LET c == pending_requests[to_string(line'.id)]
                                  IN  calls[c].rx.state = "empty"
                                        => calls'[c].rx = RxReady(response_from_msg(line'))
                       /\ (has_method(line') /\ ~has_id(line'))
                            => last' = Handled("notification", on_update(line'))
                       /\ (has_method(line') /\ has_id(line') /\ writer = "running")
                            => \/ pc' \in {"wait_for_exit", "kill"}
                               \/ \E f \in {message_rx'[Len(message_rx')]} :
                                    Enqueued(f) /\ IsResponse(f) /\ f.id = line'.id
       /\ (role = "client" /\ AfterBadLine /\ pc # "stopped" /\ Inputs < MaxInputs)
            => ENABLED ClientHandleLine
      ]_vars

\* The client answered a Request with an unknown method with -32601, and
\* the Response it read next completed the pending call
C32_Witness ==
    /\ role = "client"
    /\ nread = 2
    /\ last = Handled("response", "none")
    /\ calls[1].rx.state = "ready"
    /\ calls[1].rx.resp.id = Num(1)
    /\ \E i \in DOMAIN Sent : Sent[i] = ErrorFrame(Num(1), -32601, "MethodNotFound")

\* The callback the claim names for each update type
CallbackOfType ==
    [t \in UpdateTypes |->
        CASE t = "agent_message_chunk" -> "on_agent_message"
          [] t = "agent_thought_chunk" -> "on_agent_thought"
          [] t = "tool_call" -> "on_tool_call"
          [] t = "tool_call_update" -> "on_tool_update"
          [] t = "plan" -> "on_plan"
          [] t = "mode_change" -> "on_mode_change"
          [] t = "done" -> "on_done"]

\* C33: the step in which the client takes a notification calls the
\* callback of the update's type when the notification is a session/update
\* of a known type, and no callback otherwise; the callback has returned
\* when the step is over (the loop stands at next_line), so callbacks run in
\* the order of arrival and ahead of whatever a later Response completes;
\* the step touches neither the callers nor the correlation table.
C33_OneCallbackPerUpdate ==
    [][(/\ role = "client"
        /\ nread' = nread + 1
        /\ line'.form = "object"
        /\ has_method(line')
        /\ ~has_id(line'))
         => /\ last'.class = "notification"
            /\ last'.invoked =
                  IF line'.method = "session/update" /\ line'.params.type \in UpdateTypes
                  THEN CallbackOfType[line'.params.type]
                  ELSE "none"
            /\ pc' = "next_line"
            /\ UNCHANGED <<calls, pending_requests, message_rx>>
      ]_vars

\* Every update that is still on its way or has been written, oldest first:
\* the notifications on the transport, those in the outbound queue, the
\* updates in the sink; each with the invocation that pushed it and its type
UpdateStream ==
    LET written == Updates(wire \o message_rx)
    IN  [i \in DOMAIN written |->
            [inv |-> written[i].params.data.inv, type |-> written[i].params.type]]
          \o [i \in DOMAIN update_rx |->
                [inv |-> update_rx[i].data.inv, type |-> update_rx[i].type]]

\* In the stream no update follows a Done of its own invocation
DoneClosesInvocation ==
    \A i, j \in DOMAIN UpdateStream :
        (i < j /\ UpdateStream[i].inv = UpdateStream[j].inv)
          => UpdateStream[i].type # "done"

\* C34: Done is the last update of its invocation.  The shipped handler
\* returns only after it has sent Done, it sends Done once, and between
\* that send and its return it pushes nothing; the forwarder hands the
\* updates on one by one in the order of the sink; so on the transport, in
\* the queue and in the sink no update of an invocation stands behind that
\* invocation's Done, and no invocation has two.
C34_DoneIsLast ==
    [][/\ DoneClosesInvocation
       /\ DoneClosesInvocation'
       /\ (pc = "session_prompt" /\ pc' # pc) => agent = "done_sent"
       /\ agent = "done_sent"
            => /\ pushed' = pushed
               /\ Len(update_rx') <= Len(update_rx)
       /\ (agent = "streaming" /\ agent' # agent)
            => /\ agent' = "done_sent"
               /\ pushed' = pushed + 1
               /\ forwarder = "running"
                    => update_rx' =
                          Append(update_rx,
                                 SessionUpdate(line.params.sid, "done",
                                               [inv |-> nread, k |-> pushed + 1]))
       /\ (Len(message_rx') = Len(message_rx) + 1 /\ IsUpdate(message_rx'[Len(message_rx')]))
            => /\ update_rx # <<>>
               /\ Enqueued(notification_to_string(Head(update_rx)))
               /\ update_rx' = Tail(update_rx)
      ]_vars

\* The handler of a session/prompt pushed a chunk, then Done, and returned;
\* both updates are on the transport, Done behind the chunk
C34_Witness ==
    /\ role = "server"
    /\ agent = "idle"
    /\ pc = "next_line"
    /\ update_rx = <<>>
    /\ Len(Updates(wire)) = 2
    /\ Updates(wire)[1].params.type = "agent_message_chunk"
    /\ Updates(wire)[2].params.type = "done"
    /\ Updates(wire)[1].params.data.inv = Updates(wire)[2].params.data.inv

\* The Request frame of call c as Client::send_request enqueues it
RequestOf(c) == request_to_string(Num(calls[c].id), calls[c].method)

\* C35: send_request registers before it sends.  The step that sends the
\* Request of a call (on the client: puts its frame on the outbound queue)
\* comes after the registration and finds the call's id in the correlation
\* table, bound to that call (unless a Response with that id, which the
\* peer made up before it saw the Request, has completed the call already);
\* from then on, as long as no Response has come and the call still waits,
\* the entry is in the table; and a Response with the id of such a call that
\* the reader takes completes the call, it is never dropped for want of an
\* entry.
C35_RegisteredBeforeSent ==
    [][/\ \A c \in Callers :
            /\ (calls[c].pc # "awaiting" /\ calls'[c].pc = "awaiting")
                 => /\ calls[c].pc = "registered"
                    /\ calls[c].rx.state = "empty"
                         => /\ Key(c) \in DOMAIN pending_requests
                            /\ pending_requests[Key(c)] = c
                    /\ role = "client" => Enqueued(RequestOf(c))
            /\ (calls'[c].pc = "awaiting" /\ calls'[c].rx.state = "empty")
                 => /\ Key(c) \in DOMAIN pending_requests'
                    /\ pending_requests'[Key(c)] = c
            /\ (/\ ResponseRead
                /\ line'.id = Num(calls[c].id)
                /\ calls[c].pc = "awaiting"
                /\ calls[c].rx.state = "empty")
                 => /\ calls'[c].rx = RxReady(response_from_msg(line'))
                    /\ last' = Handled("response", "none")
       /\ (role = "client" /\ Len(message_rx') = Len(message_rx) + 1
             /\ has_method(message_rx'[Len(message_rx')])
             /\ has_id(message_rx'[Len(message_rx')]))
            => \E c \in Callers :
                 /\ calls[c].pc = "registered"
                 /\ Enqueued(RequestOf(c))
      ]_vars

\* The client's Request went out with its id registered, the agent's
\* Response was read and found the entry: the call holds the Response
C35_Witness ==
    /\ role = "client"
    /\ last = Handled("response", "none")
    /\ line.id = Num(1)
    /\ calls[1].id = 1
    /\ calls[1].rx = RxReady(response_from_msg(line))
    /\ \E i \in DOMAIN wire : wire[i] = RequestOf(1)
    /\ Key(1) \notin DOMAIN pending_requests

\* C36: a send_request that ended with ChannelError has taken its entry
\* out of the correlation table again: the table does not hold the id of a
\* call that failed at its send.
C36_ChannelErrorUnregisters ==
    \A c \in Callers :
        calls[c].ret = Err("ChannelError")
          => ~(Key(c) \in DOMAIN pending_requests /\ pending_requests[Key(c)] = c)

\* The keys of the two maps of the TerminalManager
TerminalKeys == DOMAIN term_mgr.terminals
OutputKeys == DOMAIN term_mgr.outputs

\* C37: whenever no operation of the TerminalManager is under way,
\* `terminals` and `outputs` have the same keys; every key is a number
\* create has handed out (below next_id) that no kill or release has taken
\* out since; a key enters only through a create whose spawn succeeded, as
\* the id that create returns, both maps at once; a create whose spawn
\* fails changes neither map; output and wait_for_exit change no key; kill
\* and release take out the key they name and no other.
C37_TablesAgree ==
    [][/\ terminals_lock = "free" => TerminalKeys = OutputKeys
       /\ terminals_lock' = "free" => TerminalKeys' = OutputKeys'
       /\ \A k \in TerminalKeys' :
            /\ k \in 1..(term_mgr'.next_id - 1)
            /\ k \in OutputKeys'
            /\ k \notin DOMAIN removed'
       /\ \A k \in TerminalKeys' \ TerminalKeys :
            /\ k = term_mgr.next_id
            /\ term_mgr'.next_id = k + 1
            /\ last' = Handled("request", "create")
            /\ writer = "running"
                 => Enqueued(ResultFrame(line'.id, created_json(format_id(k))))
       /\ (nread' = nread + 1 /\ last' = Handled("request", "create")
             /\ term_mgr'.next_id # term_mgr.next_id /\ TerminalKeys' = TerminalKeys)
            => /\ OutputKeys' = OutputKeys
               /\ writer = "running"
                    => Enqueued(ErrorFrame(line'.id, INTERNAL_ERROR, "IoError"))
       /\ \A k \in TerminalKeys \ TerminalKeys' :
            /\ last'.invoked \in {"kill", "release"}
            /\ k = line'.params.tid
            /\ k \in DOMAIN removed'
       /\ (nread' = nread + 1 /\ last'.invoked \in {"get_output", "none"})
            => (TerminalKeys' = TerminalKeys /\ OutputKeys' = OutputKeys)
      ]_vars

\* A create succeeded, the next failed at its spawn, a third succeeded: the
\* maps hold term_1 and term_3 and nothing for the id the failed create took
C37_Witness ==
    /\ role = "client"
    /\ nread = 3
    /\ TerminalKeys = {1, 3}
    /\ OutputKeys = {1, 3}
    /\ term_mgr.next_id = 4

\* C38: once Server::run has returned at the end of the input, with the
\* writer alive and no write failing, no accepted frame is dropped: a Response or notification
\* leaves the outbound queue only by being written to the transport, an
\* update leaves the sink only by being put on the outbound queue as its
\* session/update frame.
C38_NothingLostAtShutdown ==
    [][(/\ role = "server"
        /\ pc = "stopped"
        /\ line = EndOfStream
        /\ writer = "running"
        /\ ~(writer' = "stopped" /\ forwarder' = "running"))
         => /\ message_rx' # message_rx
                 => \/ /\ message_rx # <<>>
                       /\ wire' = Append(wire, Head(message_rx))
                       /\ message_rx' = Tail(message_rx)
                    \/ /\ update_rx # <<>>
                       /\ message_rx' =
                             Append(message_rx, notification_to_string(Head(update_rx)))
                       /\ update_rx' = Tail(update_rx)
            /\ update_rx' # update_rx
                 => /\ update_rx # <<>>
                    /\ update_rx' = Tail(update_rx)
                    /\ message_rx' =
                          Append(message_rx, notification_to_string(Head(update_rx)))
      ]_vars

\* The line taken in this step is JSON and has neither `method` nor `id`
KeylessRead ==
    /\ nread' = nread + 1
    /\ line'.form \in {"object", "nonobject"}
    /\ ~has_method(line')
    /\ ~has_id(line')

\* C39: a line that is JSON and has neither `method` nor `id`, an object or
\* any other JSON value, is dropped by both loops: nothing is enqueued or
\* written, no handler, callback or terminal operation runs, no update is
\* pushed, the correlation table, the callers and the terminal tables stay
\* as they are, and the loop stands at next_line, where it can take the
\* line that follows.
C39_KeylessFrameDropped ==
    [][/\ KeylessRead
            => /\ UNCHANGED <<message_rx, wire, writer, update_rx, pushed, forwarder, agent,
                              pending_requests, next_id, calls, term_mgr, removed>>
               /\ last' = Handled("ignored", "none")
               /\ pc' = "next_line"
       /\ (last = Handled("ignored", "none") /\ pc = "next_line" /\ Inputs < MaxInputs)
            => ENABLED (ServerHandleLine \/ ClientHandleLine)
      ]_vars

\* A Request was answered, then a JSON value that is no object was read and
\* dropped: the Response to the Request is all that was sent
C39_Witness ==
    /\ nread = 2
    /\ line = NonObjectLine
    /\ last = Handled("ignored", "none")
    /\ pc = "next_line"
    /\ Len(Sent) = 1
    /\ IsResponse(Sent[1])
    /\ Sent[1].id = Num(1)

\* The JSON text of the two results for a process that ended by a signal,
\* and for one that exited with code 0, as the claim spells them
WaitResultText(text, exit_code) ==
    "{\"exit_code\":" \o exit_code \o ",\"output\":\"" \o text \o "\"}"
OutputResultText(text, exit_code) ==
    "{\"exit_code\":" \o exit_code \o ",\"exited\":true,\"output\":\"" \o text \o "\"}"

\* The exit code each request reports for a status
WaitCode == [s \in {"exit0", "signaled"} |-> IF s = "exit0" THEN "0" ELSE "-1"]
OutputCode == [s \in {"exit0", "signaled"} |-> IF s = "exit0" THEN "0" ELSE "null"]

\* C40: for a terminal whose process has ended, terminal/wait_for_exit
\* returns at once and reports the exit code, -1 when the process was ended
\* by a signal, and terminal/output reports exited = true with the exit
\* code, null when the process was ended by a signal; a wait that was
\* polling reports the same way when it sees the end; and a status that was
\* seen once stays: every later request on the terminal leaves it as it is
\* and reports the same code, as long as the record is in the table.
C40_ExitCodeReports ==
    [][/\ \A t \in DOMAIN term_mgr.terminals :
            /\ (TerminalRequest({"terminal/output", "terminal/wait_for_exit"}, t)
                  /\ term_mgr.terminals[t].status # "running")
                 => term_mgr'.terminals[t].status = term_mgr.terminals[t].status
            /\ (TerminalRequest({"terminal/wait_for_exit"}, t)
                  /\ term_mgr'.terminals[t].status # "running")
                 => /\ pc' = "next_line"
                    /\ writer = "running"
                         => \E text \in Texts :
                              Enqueued(ResultFrame(line'.id,
                                 WaitResultText(text, WaitCode[term_mgr'.terminals[t].status])))
            /\ (TerminalRequest({"terminal/output"}, t)
                  /\ term_mgr'.terminals[t].status # "running")
                 => /\ pc' = "next_line"
                    /\ writer = "running"
                         => \E text \in Texts :
                              Enqueued(ResultFrame(line'.id,
                                 OutputResultText(text, OutputCode[term_mgr'.terminals[t].status])))
       /\ (pc = "wait_for_exit" /\ pc' # pc /\ term_mgr' # term_mgr /\ writer = "running")
            => \E text \in Texts :
                 Enqueued(ResultFrame(line.id,
                    WaitResultText(text, WaitCode[term_mgr'.terminals[line.params.tid].status])))
      ]_vars

\* terminal/output found the process of term_1 ended by a signal and said
\* exited with exit_code null; terminal/wait_for_exit on it then said -1
C40_Witness ==
    /\ role = "client"
    /\ DOMAIN term_mgr.terminals = {1}
    /\ term_mgr.terminals[1].status = "signaled"
    /\ Len(Sent) = 3
    /\ \E text \in Texts :
         /\ Sent[2].result = OutputResultText(text, "null")
         /\ Sent[3].result = WaitResultText(text, "-1")

====
